---- MODULE Spec2Model ----
(***************************************************************************)
(* A model of the C-like teaching interpreter of                           *)
(* src/c_interpreter/c_interpreter.py: the simulated byte-addressable      *)
(* Memory, the symbol tables and call stack, the string-literal pool and   *)
(* the tree-walking evaluator with its two phases.                         *)
(*                                                                         *)
(* Python integers are unbounded while TLC's are 32-bit, and a negative    *)
(* int read back from Memory is a value near 2^32.  Every Python int that  *)
(* an expression can produce is therefore held as a pair <<hi, lo>> that   *)
(* stands for hi * Base + lo with 0 <= lo < Base; None is <<>>.            *)
(***************************************************************************)
EXTENDS Integers, Sequences, FiniteSets, TLC

VARIABLES
    heap,               \* Memory.heap: address (a Python int) -> byte
    next_free_address,  \* Memory.next_free_address
    memCall,            \* the last direct call of a Memory method and its outcome
    memSteps,           \* number of direct Memory calls made so far
    calc,               \* SpecDiv: the operands of one division and its outcome
    program,            \* ProgramNode.nodes: the top-level nodes of the AST
    static_idx,         \* position of the loop of _static_analysis_and_allocation
    functions,          \* Interpreter.functions: name -> FunctionDefNode
    global_symtable,    \* Interpreter.global_symtable: name -> Symbol
    string_literals,    \* Interpreter.string_literals: text -> address
    call_stack,         \* Interpreter.call_stack: one symbol table per active call
    ctl,                \* the evaluator's own control state: per active call,
                        \* the statements still to run
    output,             \* what output_callback has received, in order
    debug_log,          \* what debug_callback has received, in order
    phase,              \* "static", "main", "finished", "nomain", "error"; "mem" in
                        \* SpecMem, "calc" in SpecDiv, "source", "lex", "lexed", "lexerror" in SpecLex,
                        \* "tokens", "parse", "parsed", "parseerror" in SpecParse and SpecRun
    err,                \* the exception that ended the run, "" if none
    text,               \* Lexer.text: the source text, a sequence of characters
    pos,                \* Lexer.pos: index of current_char in text, from 0
    tokens,             \* the tokens list that make_tokens builds; Parser.tokens
    token_idx,          \* Parser.token_idx, from 0
    ast,                \* ProgramNode.nodes as Parser.parse returns them
    advanced            \* the calls of Parser.advance made without a look at the
                        \* token they pass: its index and the place in the grammar

memVars == <<heap, next_free_address>>
interpVars == <<program, static_idx, functions, global_symtable, string_literals,
                call_stack, ctl, output, debug_log, phase, err>>
interpVarsButPhase == <<program, static_idx, functions, global_symtable,
                        string_literals, call_stack, ctl, output, debug_log>>
lexVars == <<text, pos, tokens>>
parseVars == <<token_idx, ast, advanced>>
directVars == <<memCall, memSteps, calc, lexVars, parseVars>>
vars == <<heap, next_free_address, memCall, memSteps, calc, program, static_idx,
          functions, global_symtable, string_literals, call_stack, ctl, output,
          debug_log, phase, err, text, pos, tokens, token_idx, ast, advanced>>

(***************************************************************************)
(* Program constants.                                                      *)
(***************************************************************************)
INT_SIZE == 4
CHAR_SIZE == 1
FIRST_ADDRESS == 1000
BYTE_MAX == 255

(***************************************************************************)
(* Bounds of the model.                                                    *)
(***************************************************************************)
MaxMemSteps == 3       \* direct Memory calls in one run of SpecMem
MaxAllocSize == 5      \* largest size handed to allocate in SpecMem
MaxGlobals == 2        \* top-level variable declarations of a generated program
MaxStmts == 2          \* statements in the body of a generated main
MaxOperand == 8        \* largest magnitude of an operand in SpecDiv

(***************************************************************************)
(* Python int arithmetic on <<hi, lo>> pairs.                              *)
(***************************************************************************)
Base == 2^15

None == <<>>
IsInt(v) == Len(v) = 2
PyInt(n) == <<n \div Base, n % Base>>
PyLt(a, b) == a[1] < b[1] \/ (a[1] = b[1] /\ a[2] < b[2])
PyIsNeg(a) == a[1] < 0
PyAdd(a, b) ==
    LET s == a[2] + b[2] IN <<a[1] + b[1] + (s \div Base), s % Base>>
PyNeg(a) == IF a[2] = 0 THEN <<-a[1], 0>> ELSE <<-a[1] - 1, Base - a[2]>>
PySub(a, b) == PyAdd(a, PyNeg(b))
PyAbs(a) == IF PyIsNeg(a) THEN PyNeg(a) ELSE a
\* floor(a / 2) and a mod 2
PyHalf(a) == <<a[1] \div 2, (a[2] + (a[1] % 2) * Base) \div 2>>
PyOdd(a) == a[2] % 2 = 1

\* In the recursive operators below an intermediate result is bound as
\* x \in {e}: the value of e is then computed once, also where the fairness
\* condition of SpecFair has ENABLED evaluated.
RECURSIVE PyMulNat(_, _)
\* a * b for b >= 0, by doubling
PyMulNat(a, b) ==
    IF b = PyInt(0) THEN PyInt(0)
    ELSE LET h == PyMulNat(a, PyHalf(b))
             d == PyAdd(h, h)
         IN IF PyOdd(b) THEN PyAdd(d, a) ELSE d

PyMul(a, b) ==
    IF PyIsNeg(b) THEN PyNeg(PyMulNat(a, PyNeg(b))) ELSE PyMulNat(a, b)

RECURSIVE PyDivModNat(_, _)
\* <<quotient, remainder>> of a by b for a >= 0 and b > 0
PyDivModNat(a, b) ==
    IF PyLt(a, b) THEN <<PyInt(0), a>>
    ELSE CHOOSE res \in
            {LET d == PyAdd(qr[1], qr[1])
             IN IF PyLt(qr[2], b) THEN <<d, qr[2]>>
                ELSE <<PyAdd(d, PyInt(1)), PySub(qr[2], b)>> :
             qr \in {PyDivModNat(a, doubled) : doubled \in {PyAdd(b, b)}}} : TRUE

\* int(left / right) for right # 0: the float quotient is exact enough below
\* 2^53 for int() to give the quotient truncated toward zero.
PyTruncDiv(a, b) ==
    LET q == PyDivModNat(PyAbs(a), PyAbs(b))[1]
    IN IF PyIsNeg(a) # PyIsNeg(b) THEN PyNeg(q) ELSE q

\* value >> 8
PyShr8(v) == <<v[1] \div 256, (v[1] % 256) * (Base \div 256) + (v[2] \div 256)>>
\* value << 8
PyShl8(v) == <<v[1] * 256 + ((v[2] * 256) \div Base), (v[2] * 256) % Base>>

RECURSIVE PyByte(_, _)
\* (value >> (i * 8)) & 0xFF
PyByte(value, i) ==
    IF i = 0 THEN value[2] % (BYTE_MAX + 1)
    ELSE CHOOSE byte_value \in {PyByte(shifted, i - 1) : shifted \in {PyShr8(value)}} : TRUE

(***************************************************************************)
(* Memory.                                                                 *)
(***************************************************************************)
\* the addresses address, address + 1, ..., address + n - 1
AddrRange(address, n) == {PyAdd(address, PyInt(i)) : i \in 0 .. n - 1}

\* Memory.allocate: the heap after allocate(size) with the cursor at nfa
AllocHeap(h, nfa, size) ==
    [k \in DOMAIN h \cup AddrRange(PyInt(nfa), size) |->
        IF k \in AddrRange(PyInt(nfa), size) THEN 0 ELSE h[k]]
AllocCursor(nfa, size) == nfa + size

\* Memory.set_int_value: "" when the write goes through, else the exception
SetIntError(address, value) ==
    IF ~IsInt(address) THEN "TypeError"
    ELSE IF PyLt(address, PyInt(FIRST_ADDRESS)) THEN "InvalidWrite"
    ELSE IF ~IsInt(value) THEN "TypeError"
    ELSE ""
SetIntHeap(h, address, value) ==
    [k \in DOMAIN h \cup AddrRange(address, INT_SIZE) |->
        IF k \in AddrRange(address, INT_SIZE)
        THEN PyByte(value, CHOOSE i \in 0 .. INT_SIZE - 1 : k = PyAdd(address, PyInt(i)))
        ELSE h[k]]

\* Memory.get_byte_value
GetByte(h, address) == IF address \notin DOMAIN h THEN 0 ELSE h[address]

RECURSIVE ReadIntFrom(_, _, _)
\* the loop of get_int_value: bytes i .. INT_SIZE-1 combined, little-endian
ReadIntFrom(h, address, i) ==
    IF i = INT_SIZE THEN PyInt(0)
    ELSE CHOOSE value \in {PyAdd(PyInt(GetByte(h, PyAdd(address, PyInt(i)))), PyShl8(upper)) :
                            upper \in {ReadIntFrom(h, address, i + 1)}} : TRUE

\* Memory.get_int_value
GetIntError(h, address) ==
    IF address \notin DOMAIN h THEN "InvalidAccess" ELSE ""
GetInt(h, address) == ReadIntFrom(h, address, 0)

\* set_byte_value without its test of the address: a faulty variant
SetByteErrorNoFloor(address, byte_value) ==
    IF ~IsInt(address) THEN "TypeError"
    ELSE IF ~(0 <= byte_value /\ byte_value <= BYTE_MAX) THEN "ValueError"
    ELSE ""

\* Memory.set_byte_value
SetByteError(address, byte_value) ==
    IF ~IsInt(address) THEN "TypeError"
    ELSE IF PyLt(address, PyInt(FIRST_ADDRESS)) THEN "InvalidWrite"
    ELSE IF ~(0 <= byte_value /\ byte_value <= BYTE_MAX) THEN "ValueError"
    ELSE ""
SetByteHeap(h, address, byte_value) ==
    [k \in DOMAIN h \cup {address} |-> IF k = address THEN byte_value ELSE h[k]]

(***************************************************************************)
(* SpecMem: the Memory class driven directly, by any sequence of calls.    *)
(***************************************************************************)
MemAddresses == {PyInt(a) : a \in {999, 1000, 1001, 1003}} \cup {PyInt(-1)}
MemValues == {PyInt(v) : v \in {0, 1, 255, 256}} \cup {PyInt(-7)}
MemBytes == {0, 65, 255, 256, -1}

NoCall == [op |-> "none"]
NoCalc == [pc |-> "none"]

InitMem ==
    /\ heap = <<>>
    /\ next_free_address = FIRST_ADDRESS
    /\ memCall = NoCall
    /\ memSteps = 0
    /\ calc = NoCalc
    /\ program = <<>>
    /\ static_idx = 1
    /\ functions = <<>>
    /\ global_symtable = <<>>
    /\ string_literals = <<>>
    /\ call_stack = <<>>
    /\ ctl = <<>>
    /\ output = <<>>
    /\ debug_log = <<>>
    /\ phase = "mem"
    /\ err = ""
    /\ text = <<>>
    /\ pos = 0
    /\ tokens = <<>>
    /\ token_idx = 0
    /\ ast = <<>>
    /\ advanced = <<>>

MemAllocate ==
    /\ phase = "mem"
    /\ memSteps < MaxMemSteps
    /\ UNCHANGED <<interpVars, calc, lexVars, parseVars>>
    /\ \E size \in 0 .. MaxAllocSize :
        /\ heap' = AllocHeap(heap, next_free_address, size)
        /\ next_free_address' = AllocCursor(next_free_address, size)
        /\ memCall' = [op |-> "allocate", size |-> size,
                       result |-> next_free_address, error |-> ""]
    /\ memSteps' = memSteps + 1

MemSetInt ==
    /\ phase = "mem"
    /\ memSteps < MaxMemSteps
    /\ UNCHANGED <<interpVars, calc, lexVars, parseVars>>
    /\ \E address \in MemAddresses, value \in MemValues :
        /\ heap' = IF SetIntError(address, value) = ""
                   THEN SetIntHeap(heap, address, value) ELSE heap
        /\ memCall' = [op |-> "set_int_value", address |-> address,
                       value |-> value, error |-> SetIntError(address, value)]
    /\ memSteps' = memSteps + 1
    /\ UNCHANGED next_free_address

MemGetInt ==
    /\ phase = "mem"
    /\ memSteps < MaxMemSteps
    /\ UNCHANGED <<interpVars, calc, lexVars, parseVars>>
    /\ \E address \in MemAddresses :
        memCall' = [op |-> "get_int_value", address |-> address,
                    result |-> IF GetIntError(heap, address) = ""
                               THEN GetInt(heap, address) ELSE None,
                    error |-> GetIntError(heap, address)]
    /\ memSteps' = memSteps + 1
    /\ UNCHANGED memVars

MemSetByte ==
    /\ phase = "mem"
    /\ memSteps < MaxMemSteps
    /\ UNCHANGED <<interpVars, calc, lexVars, parseVars>>
    /\ \E address \in MemAddresses, byte_value \in MemBytes :
        /\ heap' = IF SetByteError(address, byte_value) = ""
                   THEN SetByteHeap(heap, address, byte_value) ELSE heap
        /\ memCall' = [op |-> "set_byte_value", address |-> address,
                       value |-> byte_value,
                       error |-> SetByteError(address, byte_value)]
    /\ memSteps' = memSteps + 1
    /\ UNCHANGED next_free_address

MemGetByte ==
    /\ phase = "mem"
    /\ memSteps < MaxMemSteps
    /\ UNCHANGED <<interpVars, calc, lexVars, parseVars>>
    /\ \E address \in MemAddresses :
        memCall' = [op |-> "get_byte_value", address |-> address,
                    result |-> GetByte(heap, address), error |-> ""]
    /\ memSteps' = memSteps + 1
    /\ UNCHANGED memVars

NextMem == MemAllocate \/ MemSetInt \/ MemGetInt \/ MemSetByte \/ MemGetByte

SpecMem == InitMem /\ [][NextMem]_vars

(***************************************************************************)
(* The AST.  A declared type is its keyword and its pointer depth          *)
(* (Parser.get_type_string: full_type + '*' * pointers).                   *)
(***************************************************************************)
Type(base, ptr) == [base |-> base, ptr |-> ptr]
T_INT == Type("int", 0)
T_CHAR == Type("char", 0)
T_VOID == Type("void", 0)
T_CHAR_PTR == Type("char", 1)
T_INT_PTR == Type("int", 1)

Num(n) == [node |-> "Number", value |-> PyInt(n)]
Str(s) == [node |-> "String", value |-> s]
Var(name) == [node |-> "VarAccess", name |-> name]
UnaryOp(op, operand) == [node |-> "UnaryOp", op |-> op, operand |-> operand]
AddrOf(e) == UnaryOp("AMPERSAND", e)
Deref(e) == UnaryOp("ASTERISK", e)
BinaryOp(left, op, right) ==
    [node |-> "BinaryOp", left |-> left, op |-> op, right |-> right]
Call(name, args) == [node |-> "FunctionCall", name |-> name, args |-> args]
VarDecl(var_type, name) == [node |-> "VarDecl", var_type |-> var_type, name |-> name]
Assignment(target, expr) == [node |-> "Assignment", target |-> target, expr |-> expr]
PrintStmt(expr) == [node |-> "Print", expr |-> expr]
DebugStmt == [node |-> "Debug"]
IfStmt(condition, true_body, false_body) ==
    [node |-> "If", condition |-> condition, true_body |-> true_body,
     false_body |-> false_body]
ReturnStmt(expr) == [node |-> "Return", expr |-> expr]
FunctionDef(return_type, name, params, body) ==
    [node |-> "FunctionDef", return_type |-> return_type, name |-> name,
     params |-> params, body |-> body]

\* What the evaluator holds of an expression it is in the middle of: a
\* subexpression already evaluated, and the call it is waiting for.
Value(v) == [node |-> "Value", value |-> v]
Hole == [node |-> "Hole"]

Symbol(var_type, address) == [type |-> var_type, address |-> address]

(***************************************************************************)
(* Interpreter helpers.                                                    *)
(***************************************************************************)
\* Interpreter._get_size_by_type; -1 stands for the "unknown type" exception
GetSizeByType(var_type) ==
    IF var_type.ptr > 0 THEN INT_SIZE
    ELSE IF var_type.base = "int" THEN INT_SIZE
    ELSE IF var_type.base = "char" THEN CHAR_SIZE
    ELSE IF var_type.base = "void" THEN 0
    ELSE -1

\* a lookup that tries the global table before the frame: a faulty variant
GetSymbolGlobalFirst(name) ==
    IF name \in DOMAIN global_symtable
    THEN global_symtable[name]
    ELSE call_stack[Len(call_stack)][name]

\* Interpreter._get_symbol
HasSymbol(name) ==
    \/ call_stack # <<>> /\ name \in DOMAIN call_stack[Len(call_stack)]
    \/ name \in DOMAIN global_symtable
GetSymbol(name) ==
    IF call_stack # <<>> /\ name \in DOMAIN call_stack[Len(call_stack)]
    THEN call_stack[Len(call_stack)][name]
    ELSE global_symtable[name]

\* a mapping with one key set, as dict[key] = value
Put(map, key, value) ==
    [k \in DOMAIN map \cup {key} |-> IF k = key THEN value ELSE map[k]]

(***************************************************************************)
(* Interpreter._store_string_literal, on a record m of heap, cursor, pool  *)
(* and exception.  Text is a sequence of character codes (ord).            *)
(***************************************************************************)
RECURSIVE WriteChars(_, _, _, _)
\* the enumerate loop: set_byte_value(addr + i, ord(char)) from position i on,
\* stopping at the first character set_byte_value refuses
WriteChars(h, addr, txt, i) ==
    IF i > Len(txt) THEN [heap |-> h, err |-> ""]
    ELSE LET a == PyInt(addr + i - 1)
         IN IF SetByteError(a, txt[i]) # ""
            THEN [heap |-> h, err |-> SetByteError(a, txt[i])]
            ELSE CHOOSE w \in {WriteChars(written, addr, txt, i + 1) :
                               written \in {SetByteHeap(h, a, txt[i])}} : TRUE

\* _store_string_literal without the lookup in the pool: a faulty variant
StoreStringLiteralNoLookup(m, string_value) ==
    IF m.err # "" THEN m
    ELSE LET size == Len(string_value) + 1
             addr == m.next_free_address
             h0   == AllocHeap(m.heap, addr, size)
             w    == WriteChars(h0, addr, string_value, 1)
             last == PyInt(addr + size - 1)
         IN IF w.err # ""
            THEN [m EXCEPT !.heap = w.heap,
                           !.next_free_address = AllocCursor(addr, size),
                           !.err = w.err]
            ELSE [m EXCEPT !.heap = SetByteHeap(w.heap, last, 0),
                           !.next_free_address = AllocCursor(addr, size),
                           !.string_literals = Put(m.string_literals, string_value, addr)]

\* _store_string_literal with size = len(string_value): a faulty variant
StoreStringLiteralNoTerminator(m, string_value) ==
    IF m.err # "" \/ string_value \in DOMAIN m.string_literals THEN m
    ELSE LET size == Len(string_value)
             addr == m.next_free_address
             h0   == AllocHeap(m.heap, addr, size)
             w    == WriteChars(h0, addr, string_value, 1)
             last == PyInt(addr + size - 1)
         IN IF w.err # ""
            THEN [m EXCEPT !.heap = w.heap,
                           !.next_free_address = AllocCursor(addr, size),
                           !.err = w.err]
            ELSE [m EXCEPT !.heap = SetByteHeap(w.heap, last, 0),
                           !.next_free_address = AllocCursor(addr, size),
                           !.string_literals = Put(m.string_literals, string_value, addr)]

StoreStringLiteral(m, string_value) ==
    IF m.err # "" \/ string_value \in DOMAIN m.string_literals THEN m
    ELSE LET size == Len(string_value) + 1
             addr == m.next_free_address
             h0   == AllocHeap(m.heap, addr, size)
             w    == WriteChars(h0, addr, string_value, 1)
             last == PyInt(addr + size - 1)
         IN IF w.err # ""
            THEN [m EXCEPT !.heap = w.heap,
                           !.next_free_address = AllocCursor(addr, size),
                           !.err = w.err]
            ELSE [m EXCEPT !.heap = SetByteHeap(w.heap, last, 0),
                           !.next_free_address = AllocCursor(addr, size),
                           !.string_literals = Put(m.string_literals, string_value, addr)]

RECURSIVE StoreAll(_, _)
StoreAll(m, texts) ==
    IF texts = <<>> THEN m
    ELSE CHOOSE r \in {StoreAll(stored, Tail(texts)) :
                        stored \in {StoreStringLiteral(m, Head(texts))}} : TRUE

RECURSIVE StringsOf(_)
RECURSIVE StringsOfList(_)
\* Interpreter._find_and_store_string_literals_recursive: the texts of the
\* StringNodes under a node, in the order the traversal meets them
StringsOf(n) ==
    CASE n.node = "String" -> <<n.value>>
      [] n.node = "FunctionDef" -> StringsOfList(n.body)
      [] n.node = "FunctionCall" -> StringsOfList(n.args)
      [] n.node = "Return" -> StringsOf(n.expr)
      [] n.node = "Print" -> StringsOf(n.expr)
      [] n.node = "Assignment" -> StringsOf(n.target) \o StringsOf(n.expr)
      [] n.node = "BinaryOp" -> StringsOf(n.left) \o StringsOf(n.right)
      [] n.node = "UnaryOp" -> StringsOf(n.operand)
      [] n.node = "If" -> StringsOf(n.condition) \o StringsOfList(n.true_body)
                          \o StringsOfList(n.false_body)
      [] OTHER -> <<>>
StringsOfList(nodes) ==
    IF nodes = <<>> THEN <<>>
    ELSE StringsOf(Head(nodes)) \o StringsOfList(Tail(nodes))

\* Interpreter._read_string_from_memory for address >= 1000: the characters
\* from address up to the first zero byte (a byte never written reads as 0)
RECURSIVE ReadChars(_, _)
ReadChars(h, address) ==
    IF GetByte(h, address) = 0 THEN <<>>
    ELSE CHOOSE chars \in {<<GetByte(h, address)>> \o ReadChars(h, following) :
                            following \in {PyAdd(address, PyInt(1))}} : TRUE

\* Interpreter._read_string_from_memory: the text it returns
ReadStringFromMemory(h, address) ==
    IF PyLt(address, PyInt(FIRST_ADDRESS))
    THEN [text |-> "Error: Invalid string address", address |-> address]
    ELSE [text |-> "chars", chars |-> ReadChars(h, address)]

(***************************************************************************)
(* Expression evaluation.  Eval gives the outcome of visiting an           *)
(* expression in the current state up to the first function call in it:    *)
(* a value, an exception, or the call to make (name and argument values)   *)
(* with the rest of the expression, in which what was evaluated before the *)
(* call is a Value and the call itself a Hole.                             *)
(***************************************************************************)
Val(v) == [k |-> "val", v |-> v]
Err(e) == [k |-> "err", e |-> e]
NeedCall(name, args, rest) == [k |-> "call", name |-> name, args |-> args, rest |-> rest]

ReadInt(address) ==
    IF GetIntError(heap, address) # "" THEN Err(GetIntError(heap, address))
    ELSE Val(GetInt(heap, address))

\* Interpreter.visit_BinaryOpNode, once both operands are values
ApplyBinaryOp(op, left, right) ==
    IF op \in {"PLUS", "MINUS", "MUL", "DIV", "LT", "GT"}
       /\ (~IsInt(left) \/ ~IsInt(right))
    THEN Err("TypeError")
    ELSE CASE op = "PLUS" -> Val(PyAdd(left, right))
           [] op = "MINUS" -> Val(PySub(left, right))
           [] op = "MUL" -> Val(PyMul(left, right))
           [] op = "DIV" -> IF right = PyInt(0) THEN Err("ZeroDivisionError")
                            ELSE Val(PyTruncDiv(left, right))
           [] op = "EQ" -> Val(PyInt(IF left = right THEN 1 ELSE 0))
           [] op = "NEQ" -> Val(PyInt(IF left # right THEN 1 ELSE 0))
           [] op = "LT" -> Val(PyInt(IF PyLt(left, right) THEN 1 ELSE 0))
           [] op = "GT" -> Val(PyInt(IF PyLt(right, left) THEN 1 ELSE 0))
           [] OTHER -> Val(None)

\* Interpreter.visit_UnaryOpNode with op '&'
EvalAddressOf(operand) ==
    IF operand.node # "VarAccess" THEN Err("AddressOfNonVariable")
    ELSE IF ~HasSymbol(operand.name) THEN Err("UndefinedVariable")
    ELSE Val(PyInt(GetSymbol(operand.name).address))

\* '*' reading one byte instead of an int: a faulty variant
EvalDereferenceByte(address_to_dereference) ==
    IF GetIntError(heap, address_to_dereference) # ""
    THEN Err(GetIntError(heap, address_to_dereference))
    ELSE Val(PyInt(GetByte(heap, address_to_dereference)))

\* Interpreter.visit_UnaryOpNode with op '*', its operand evaluated
EvalDereference(address_to_dereference) == ReadInt(address_to_dereference)

\* Interpreter.visit_VarAccessNode
EvalVarAccess(name) ==
    IF ~HasSymbol(name) THEN Err("UndefinedVariable")
    ELSE ReadInt(PyInt(GetSymbol(name).address))

\* Interpreter.visit_StringNode
EvalString(txt) ==
    IF txt \in DOMAIN string_literals THEN Val(PyInt(string_literals[txt]))
    ELSE Err("KeyError")

RECURSIVE Eval(_)
RECURSIVE EvalArgs(_, _)
Eval(e) ==
    CASE e.node = "Value" -> Val(e.value)
      [] e.node = "Number" -> Val(e.value)
      [] e.node = "String" -> EvalString(e.value)
      [] e.node = "VarAccess" -> EvalVarAccess(e.name)
      [] e.node = "UnaryOp" ->
            IF e.op = "AMPERSAND" THEN EvalAddressOf(e.operand)
            ELSE IF e.op = "ASTERISK"
            THEN LET r == Eval(e.operand)
                 IN IF r.k = "val" THEN EvalDereference(r.v)
                    ELSE IF r.k = "call"
                    THEN [r EXCEPT !.rest = UnaryOp(e.op, r.rest)]
                    ELSE r
            ELSE Err("UnknownUnaryOperator")
      [] e.node = "BinaryOp" ->
            LET l == Eval(e.left)
            IN IF l.k = "err" THEN l
               ELSE IF l.k = "call"
               THEN [l EXCEPT !.rest = BinaryOp(l.rest, e.op, e.right)]
               ELSE LET r == Eval(e.right)
                    IN IF r.k = "err" THEN r
                       ELSE IF r.k = "call"
                       THEN [r EXCEPT !.rest = BinaryOp(Value(l.v), e.op, r.rest)]
                       ELSE ApplyBinaryOp(e.op, l.v, r.v)
      [] e.node = "FunctionCall" -> EvalArgs(e, 1)

\* Interpreter.visit_FunctionCallNode: the arguments from the i-th on, left to right
EvalArgs(e, i) ==
    IF i > Len(e.args)
    THEN NeedCall(e.name, [j \in 1 .. Len(e.args) |-> e.args[j].value], Hole)
    ELSE IF e.args[i].node = "Value" THEN EvalArgs(e, i + 1)
    ELSE LET r == Eval(e.args[i])
         IN IF r.k = "err" THEN r
            ELSE IF r.k = "call"
            THEN [r EXCEPT !.rest = Call(e.name, [e.args EXCEPT ![i] = r.rest])]
            ELSE EvalArgs(Call(e.name, [e.args EXCEPT ![i] = Value(r.v)]), i + 1)

RECURSIVE FillHole(_, _)
\* the rest of an expression once the call it waited for has returned v
FillHole(e, v) ==
    CASE e.node = "Hole" -> Value(v)
      [] e.node = "UnaryOp" -> [e EXCEPT !.operand = FillHole(e.operand, v)]
      [] e.node = "BinaryOp" ->
            [e EXCEPT !.left = FillHole(e.left, v), !.right = FillHole(e.right, v)]
      [] e.node = "FunctionCall" ->
            [e EXCEPT !.args = [j \in 1 .. Len(e.args) |-> FillHole(e.args[j], v)]]
      [] OTHER -> e

(***************************************************************************)
(* Control state.  ctl[1] stands for visit_ProgramNode waiting for         *)
(* call_function('main', []); every further entry is one active            *)
(* call_function.  blocks are the statement lists being iterated, the      *)
(* innermost (an if body) first, each cut down to what is still to run.    *)
(***************************************************************************)
ExprStmts == {"Assignment", "Print", "If", "Return", "FunctionCall"}

Top == ctl[Len(ctl)]
HasCur == phase = "main" /\ ctl # <<>> /\ Head(Top.blocks) # <<>>
Cur == Head(Head(Top.blocks))

StmtExpr(s) ==
    CASE s.node = "Assignment" -> s.expr
      [] s.node = "Print" -> s.expr
      [] s.node = "Return" -> s.expr
      [] s.node = "If" -> s.condition
      [] OTHER -> s
WithExpr(s, e) ==
    CASE s.node = "Assignment" -> [s EXCEPT !.expr = e]
      [] s.node = "Print" -> [s EXCEPT !.expr = e]
      [] s.node = "Return" -> [s EXCEPT !.expr = e]
      [] s.node = "If" -> [s EXCEPT !.condition = e]
      [] OTHER -> e

RECURSIVE Normalise(_)
\* a statement list that has run to its end returns to the enclosing one
Normalise(blocks) ==
    IF Len(blocks) > 1 /\ Head(blocks) = <<>> THEN Normalise(Tail(blocks)) ELSE blocks
AfterCur(blocks) == Normalise(<<Tail(Head(blocks))>> \o Tail(blocks))
EnterBlock(blocks, body) == Normalise(<<body, Tail(Head(blocks))>> \o Tail(blocks))
ReplaceCur(blocks, stmt) == <<<<stmt>> \o Tail(Head(blocks))>> \o Tail(blocks)
SetTop(c, blocks) == [c EXCEPT ![Len(c)].blocks = blocks]
Pop(seq) == SubSeq(seq, 1, Len(seq) - 1)

\* the control state once the innermost call has ended with value v
Returned(v) ==
    LET c == Pop(ctl)
        caller == c[Len(c)]
        s == Head(Head(caller.blocks))
    IN SetTop(c, ReplaceCur(caller.blocks, WithExpr(s, FillHole(StmtExpr(s), v))))

(***************************************************************************)
(* Interpreter._declare_variable on heap h and cursor nfa: the exception   *)
(* if any, the heap and cursor after it and the Symbol it records.         *)
(***************************************************************************)
DeclareVariable(h, nfa, var_type) ==
    LET size == GetSizeByType(var_type)
        h1 == AllocHeap(h, nfa, size)
    IN IF size < 0
       THEN [err |-> "UnknownType", heap |-> h, next_free_address |-> nfa,
             symbol |-> Symbol(var_type, nfa)]
       ELSE [err |-> SetIntError(PyInt(nfa), PyInt(0)),
             heap |-> IF SetIntError(PyInt(nfa), PyInt(0)) = ""
                      THEN SetIntHeap(h1, PyInt(nfa), PyInt(0)) ELSE h1,
             next_free_address |-> AllocCursor(nfa, size),
             symbol |-> Symbol(var_type, nfa)]

RECURSIVE BindParams(_, _, _, _)
\* the zip loop of call_function from the i-th parameter on; b holds heap,
\* cursor, the new symbol table and the exception
BindParams(b, params, arg_values, i) ==
    IF i > Len(params) \/ i > Len(arg_values) \/ b.err # "" THEN b
    ELSE LET addr == b.next_free_address
             h1 == AllocHeap(b.heap, addr, INT_SIZE)
             e == SetIntError(PyInt(addr), arg_values[i])
         IN BindParams(
                [heap |-> IF e = "" THEN SetIntHeap(h1, PyInt(addr), arg_values[i]) ELSE h1,
                 next_free_address |-> AllocCursor(addr, INT_SIZE),
                 symtable |-> Put(b.symtable, params[i], Symbol(T_INT, addr)),
                 err |-> e],
                params, arg_values, i + 1)

\* the test of the argument count letting too few arguments pass: a faulty variant
ArityAtMost(func_node, arg_values) == Len(arg_values) <= Len(func_node.params)

\* call_function's test of the argument count
ArityOk(func_node, arg_values) == Len(arg_values) = Len(func_node.params)

\* a body that ends without a return yielding 0 whatever the type: a faulty variant
DefaultResultZero(func_node) == PyInt(0)

\* call_function's result when the body ends without a return
DefaultResult(func_node) ==
    IF func_node.return_type = T_VOID THEN None ELSE PyInt(0)

\* Interpreter.visit_PrintNode: the line it logs for operand expr with value v
IsStringOutput(expr) ==
    \/ expr.node = "String"
    \/ /\ expr.node = "VarAccess"
       /\ GetSymbol(expr.name).type.base = "char"
       /\ GetSymbol(expr.name).type.ptr >= 1
PrintLine(expr, output_value) ==
    IF IsStringOutput(expr)
    THEN [line |-> "[STRING OUTPUT]", string |-> ReadStringFromMemory(heap, output_value)]
    ELSE [line |-> "[INT OUTPUT]", value |-> output_value]

Fatal(e) == phase' = "error" /\ err' = e

(***************************************************************************)
(* Phase 1: Interpreter._static_analysis_and_allocation, one top-level     *)
(* node per step.                                                          *)
(***************************************************************************)
\* a function registered without its string literals being stored: a faulty variant
StaticFunctionDefNoLiterals ==
    /\ phase = "static"
    /\ static_idx <= Len(program)
    /\ program[static_idx].node = "FunctionDef"
    /\ functions' = Put(functions, program[static_idx].name, program[static_idx])
    /\ static_idx' = static_idx + 1
    /\ UNCHANGED <<memVars, directVars, program, global_symtable, string_literals,
                   call_stack, ctl, output, debug_log, phase, err>>

StaticFunctionDef ==
    /\ phase = "static"
    /\ static_idx <= Len(program)
    /\ program[static_idx].node = "FunctionDef"
    /\ LET child == program[static_idx]
           m == StoreAll([heap |-> heap, next_free_address |-> next_free_address,
                          string_literals |-> string_literals, err |-> ""],
                         StringsOf(child))
       IN /\ functions' = Put(functions, child.name, child)
          /\ heap' = m.heap
          /\ next_free_address' = m.next_free_address
          /\ string_literals' = m.string_literals
          /\ IF m.err # "" THEN Fatal(m.err) ELSE UNCHANGED <<phase, err>>
    /\ static_idx' = static_idx + 1
    /\ UNCHANGED <<directVars, program, global_symtable, call_stack, ctl, output, debug_log>>

StaticVarDecl ==
    /\ phase = "static"
    /\ static_idx <= Len(program)
    /\ program[static_idx].node = "VarDecl"
    /\ LET child == program[static_idx]
           d == DeclareVariable(heap, next_free_address, child.var_type)
       IN /\ heap' = d.heap
          /\ next_free_address' = d.next_free_address
          /\ IF d.err = "UnknownType"
             THEN Fatal(d.err) /\ UNCHANGED global_symtable
             ELSE /\ global_symtable' = Put(global_symtable, child.name, d.symbol)
                  /\ IF d.err # "" THEN Fatal(d.err) ELSE UNCHANGED <<phase, err>>
    /\ static_idx' = static_idx + 1
    /\ UNCHANGED <<directVars, program, functions, string_literals, call_stack, ctl,
                   output, debug_log>>

(***************************************************************************)
(* Phase 2: Interpreter.visit_ProgramNode after the static pass.           *)
(***************************************************************************)
StartMain ==
    /\ phase = "static"
    /\ static_idx > Len(program)
    /\ "main" \in DOMAIN functions
    /\ output' = Append(output, [line |-> "--- Executing main ---"])
    /\ ctl' = <<[func |-> "", blocks |-> <<<<Call("main", <<>>)>>>>]>>
    /\ phase' = "main"
    /\ UNCHANGED <<memVars, directVars, program, static_idx, functions, global_symtable,
                   string_literals, call_stack, debug_log, err>>

\* the 'Finished' line logged on both branches: a faulty variant
MissingMainThenFinished ==
    /\ phase = "static"
    /\ static_idx > Len(program)
    /\ "main" \notin DOMAIN functions
    /\ output' = output \o <<[line |-> "Error: no main"], [line |-> "--- Finished ---"]>>
    /\ phase' = "nomain"
    /\ UNCHANGED <<memVars, directVars, program, static_idx, functions, global_symtable,
                   string_literals, call_stack, ctl, debug_log, err>>

MissingMain ==
    /\ phase = "static"
    /\ static_idx > Len(program)
    /\ "main" \notin DOMAIN functions
    /\ output' = Append(output, [line |-> "Error: no main"])
    /\ phase' = "nomain"
    /\ UNCHANGED <<memVars, directVars, program, static_idx, functions, global_symtable,
                   string_literals, call_stack, ctl, debug_log, err>>

ProgramFinish ==
    /\ HasCur
    /\ Len(ctl) = 1
    /\ Cur.node = "Value"
    /\ output' = Append(output, [line |-> "--- Finished ---"])
    /\ ctl' = <<>>
    /\ phase' = "finished"
    /\ UNCHANGED <<memVars, directVars, program, static_idx, functions, global_symtable,
                   string_literals, call_stack, debug_log, err>>

(***************************************************************************)
(* Interpreter.visit_FunctionCallNode and call_function up to the first    *)
(* statement of the body: the statement in hand has evaluated everything   *)
(* before a call and the argument values of that call.                     *)
(***************************************************************************)
CallFunction ==
    /\ HasCur
    /\ Cur.node \in ExprStmts
    /\ Eval(StmtExpr(Cur)).k = "call"
    /\ LET r == Eval(StmtExpr(Cur))
       IN IF r.name \notin DOMAIN functions
          THEN Fatal("UndefinedFunction") /\ UNCHANGED <<memVars, call_stack, ctl>>
          ELSE IF ~ArityOk(functions[r.name], r.args)
          THEN Fatal("ArityMismatch") /\ UNCHANGED <<memVars, call_stack, ctl>>
          ELSE LET b == BindParams([heap |-> heap, next_free_address |-> next_free_address,
                                    symtable |-> <<>>, err |-> ""],
                                   functions[r.name].params, r.args, 1)
               IN /\ heap' = b.heap
                  /\ next_free_address' = b.next_free_address
                  /\ IF b.err # ""
                     THEN Fatal(b.err) /\ UNCHANGED <<call_stack, ctl>>
                     ELSE /\ call_stack' = Append(call_stack, b.symtable)
                          /\ ctl' = Append(
                                SetTop(ctl, ReplaceCur(Top.blocks, WithExpr(Cur, r.rest))),
                                [func |-> r.name, blocks |-> <<functions[r.name].body>>])
                          /\ UNCHANGED <<phase, err>>
    /\ UNCHANGED <<directVars, program, static_idx, functions, global_symtable,
                   string_literals, output, debug_log>>

\* a call that runs off the end of its body and leaves its frame: a faulty variant
FunctionEndKeepsFrame ==
    /\ phase = "main"
    /\ Len(ctl) > 1
    /\ Top.blocks = <<<<>>>>
    /\ ctl' = Returned(DefaultResult(functions[Top.func]))
    /\ UNCHANGED <<memVars, directVars, program, static_idx, functions, global_symtable,
                   string_literals, call_stack, output, debug_log, phase, err>>

\* call_function after the body has run to its end
FunctionEnd ==
    /\ phase = "main"
    /\ Len(ctl) > 1
    /\ Top.blocks = <<<<>>>>
    /\ call_stack' = Pop(call_stack)
    /\ ctl' = Returned(DefaultResult(functions[Top.func]))
    /\ UNCHANGED <<memVars, directVars, program, static_idx, functions, global_symtable,
                   string_literals, output, debug_log, phase, err>>

\* a return that only leaves the if block it stands in: a faulty variant
VisitReturnLeavesBlock ==
    /\ HasCur
    /\ Cur.node = "Return"
    /\ Eval(Cur.expr).k # "call"
    /\ LET r == Eval(Cur.expr)
       IN IF r.k = "err"
          THEN Fatal(r.e) /\ UNCHANGED <<call_stack, ctl>>
          ELSE IF Len(Top.blocks) > 1
          THEN /\ ctl' = SetTop(ctl, Normalise(Tail(Top.blocks)))
               /\ UNCHANGED <<call_stack, phase, err>>
          ELSE /\ call_stack' = Pop(call_stack)
               /\ ctl' = Returned(r.v)
               /\ UNCHANGED <<phase, err>>
    /\ UNCHANGED <<memVars, directVars, program, static_idx, functions, global_symtable,
                   string_literals, output, debug_log>>

\* Interpreter.visit_ReturnNode, and call_function catching the ReturnSignal
VisitReturn ==
    /\ HasCur
    /\ Cur.node = "Return"
    /\ Eval(Cur.expr).k # "call"
    /\ LET r == Eval(Cur.expr)
       IN IF r.k = "err"
          THEN Fatal(r.e) /\ UNCHANGED <<call_stack, ctl>>
          ELSE /\ call_stack' = Pop(call_stack)
               /\ ctl' = Returned(r.v)
               /\ UNCHANGED <<phase, err>>
    /\ UNCHANGED <<memVars, directVars, program, static_idx, functions, global_symtable,
                   string_literals, output, debug_log>>

\* a bare call statement whose call has returned: the value is dropped
CallStatementDone ==
    /\ HasCur
    /\ Len(ctl) > 1
    /\ Cur.node = "Value"
    /\ ctl' = SetTop(ctl, AfterCur(Top.blocks))
    /\ UNCHANGED <<memVars, directVars, program, static_idx, functions, global_symtable,
                   string_literals, call_stack, output, debug_log, phase, err>>

\* Interpreter.visit_VarDeclNode
VisitVarDecl ==
    /\ HasCur
    /\ Cur.node = "VarDecl"
    /\ LET d == DeclareVariable(heap, next_free_address, Cur.var_type)
       IN /\ heap' = d.heap
          /\ next_free_address' = d.next_free_address
          /\ IF d.err = "UnknownType"
             THEN Fatal(d.err) /\ UNCHANGED <<call_stack, ctl>>
             ELSE /\ call_stack' = [call_stack EXCEPT ![Len(call_stack)] =
                                        Put(@, Cur.name, d.symbol)]
                  /\ IF d.err # ""
                     THEN Fatal(d.err) /\ UNCHANGED ctl
                     ELSE ctl' = SetTop(ctl, AfterCur(Top.blocks))
                          /\ UNCHANGED <<phase, err>>
    /\ UNCHANGED <<directVars, program, static_idx, functions, global_symtable,
                   string_literals, output, debug_log>>

\* Interpreter.visit_AssignmentNode: where the right-hand value r_value goes,
\* as the outcome of evaluating the address (an exception or the address)
AssignTarget(target) ==
    IF target.node = "VarAccess"
    THEN IF HasSymbol(target.name) THEN Val(PyInt(GetSymbol(target.name).address))
         ELSE Err("UndefinedVariable")
    ELSE IF target.node = "UnaryOp" /\ target.op = "ASTERISK"
    THEN Eval(target.operand)
    ELSE Err("InvalidLvalue")

VisitAssignment ==
    /\ HasCur
    /\ Cur.node = "Assignment"
    /\ Eval(Cur.expr).k # "call"
    /\ LET r == Eval(Cur.expr)
           t == AssignTarget(Cur.target)
       IN IF r.k = "err" THEN Fatal(r.e) /\ UNCHANGED <<heap, ctl>>
          ELSE IF t.k = "err" THEN Fatal(t.e) /\ UNCHANGED <<heap, ctl>>
          ELSE IF SetIntError(t.v, r.v) # ""
          THEN Fatal(SetIntError(t.v, r.v)) /\ UNCHANGED <<heap, ctl>>
          ELSE /\ heap' = SetIntHeap(heap, t.v, r.v)
               /\ ctl' = SetTop(ctl, AfterCur(Top.blocks))
               /\ UNCHANGED <<phase, err>>
    /\ UNCHANGED <<next_free_address, directVars, program, static_idx, functions,
                   global_symtable, string_literals, call_stack, output, debug_log>>

\* Interpreter.visit_PrintNode
\* a print whose line overtakes the line delivered before it: a faulty variant
VisitPrintOvertakes ==
    /\ HasCur
    /\ Cur.node = "Print"
    /\ Eval(Cur.expr).k # "call"
    /\ LET r == Eval(Cur.expr)
       IN IF r.k = "err" THEN Fatal(r.e) /\ UNCHANGED <<output, ctl>>
          ELSE /\ output' = Append(Pop(output), PrintLine(Cur.expr, r.v))
                                \o <<output[Len(output)]>>
               /\ ctl' = SetTop(ctl, AfterCur(Top.blocks))
               /\ UNCHANGED <<phase, err>>
    /\ UNCHANGED <<memVars, directVars, program, static_idx, functions, global_symtable,
                   string_literals, call_stack, debug_log>>

VisitPrint ==
    /\ HasCur
    /\ Cur.node = "Print"
    /\ Eval(Cur.expr).k # "call"
    /\ LET r == Eval(Cur.expr)
       IN IF r.k = "err" THEN Fatal(r.e) /\ UNCHANGED <<output, ctl>>
          ELSE /\ output' = Append(output, PrintLine(Cur.expr, r.v))
               /\ ctl' = SetTop(ctl, AfterCur(Top.blocks))
               /\ UNCHANGED <<phase, err>>
    /\ UNCHANGED <<memVars, directVars, program, static_idx, functions, global_symtable,
                   string_literals, call_stack, debug_log>>

\* visit_DebugNode handing over the outermost frame: a faulty variant
VisitDebugOutermost ==
    /\ HasCur
    /\ Cur.node = "Debug"
    /\ output' = Append(output, [line |-> ">>> Breakpoint <<<"])
    /\ debug_log' = Append(debug_log,
            [global_symtable |-> global_symtable,
             local_symtable |-> IF call_stack # <<>> THEN call_stack[1] ELSE <<>>,
             after |-> Len(output) + 1])
    /\ ctl' = SetTop(ctl, AfterCur(Top.blocks))
    /\ UNCHANGED <<memVars, directVars, program, static_idx, functions, global_symtable,
                   string_literals, call_stack, phase, err>>

\* Interpreter.visit_DebugNode.  An entry of debug_log is one call of the
\* debug sink: the two tables it is given, and the number of lines the
\* output sink has received when it is called.
VisitDebug ==
    /\ HasCur
    /\ Cur.node = "Debug"
    /\ output' = Append(output, [line |-> ">>> Breakpoint <<<"])
    /\ debug_log' = Append(debug_log,
            [global_symtable |-> global_symtable,
             local_symtable |-> IF call_stack # <<>> THEN call_stack[Len(call_stack)]
                                ELSE <<>>,
             after |-> Len(output) + 1])
    /\ ctl' = SetTop(ctl, AfterCur(Top.blocks))
    /\ UNCHANGED <<memVars, directVars, program, static_idx, functions, global_symtable,
                   string_literals, call_stack, phase, err>>

\* an if that is evaluated again as long as its condition holds: a faulty variant
VisitIfStays ==
    /\ HasCur
    /\ Cur.node = "If"
    /\ Eval(Cur.condition).k # "call"
    /\ LET r == Eval(Cur.condition)
       IN IF r.k = "err" THEN Fatal(r.e) /\ UNCHANGED ctl
          ELSE /\ ctl' = SetTop(ctl,
                      IF r.v # PyInt(0) THEN Top.blocks
                      ELSE IF Cur.false_body # <<>>
                      THEN EnterBlock(Top.blocks, Cur.false_body)
                      ELSE AfterCur(Top.blocks))
               /\ UNCHANGED <<phase, err>>
    /\ UNCHANGED <<memVars, directVars, program, static_idx, functions, global_symtable,
                   string_literals, call_stack, output, debug_log>>

\* Interpreter.visit_IfNode
VisitIf ==
    /\ HasCur
    /\ Cur.node = "If"
    /\ Eval(Cur.condition).k # "call"
    /\ LET r == Eval(Cur.condition)
       IN IF r.k = "err" THEN Fatal(r.e) /\ UNCHANGED ctl
          ELSE /\ ctl' = SetTop(ctl,
                      IF r.v # PyInt(0) THEN EnterBlock(Top.blocks, Cur.true_body)
                      ELSE IF Cur.false_body # <<>>
                      THEN EnterBlock(Top.blocks, Cur.false_body)
                      ELSE AfterCur(Top.blocks))
               /\ UNCHANGED <<phase, err>>
    /\ UNCHANGED <<memVars, directVars, program, static_idx, functions, global_symtable,
                   string_literals, call_stack, output, debug_log>>

(***************************************************************************)
(* The programs of the model: ASTs as Parser.parse builds them.            *)
(***************************************************************************)
TXT_HI == <<72, 105>>                       \* "Hi"
TXT_HO == <<72, 111>>                       \* "Ho"
TXT_HELLO == <<72, 101, 108, 108, 111>>     \* "Hello"
TXT_WIDE == <<72, 12354>>                   \* "H" and a character whose ord is above 255

SeqsUpTo(S, n) == UNION {[1 .. k -> S] : k \in 0 .. n}

\* int id(int a) { return a; }   void nop() { }   void greet() { print("Hi"); }
Library ==
    << FunctionDef(T_INT, "id", <<"a">>, <<ReturnStmt(Var("a"))>>),
       FunctionDef(T_VOID, "nop", <<>>, <<>>),
       FunctionDef(T_VOID, "greet", <<>>, <<PrintStmt(Str(TXT_HI))>>) >>

Main(body) == FunctionDef(T_VOID, "main", <<>>, body)

GlobalTypes == {T_INT, T_CHAR, T_VOID, T_CHAR_PTR}
GlobalDecls == {VarDecl(t, n) : t \in GlobalTypes, n \in {"val", "msg"}}

\* int val; char *msg; int *p;
StdGlobals == <<VarDecl(T_INT, "val"), VarDecl(T_CHAR_PTR, "msg"), VarDecl(T_INT_PTR, "p")>>

Stmts ==
    { VarDecl(T_INT, "x"),
      VarDecl(T_CHAR, "c"),
      Assignment(Var("val"), Num(2000)),
      Assignment(Var("val"), BinaryOp(Num(0), "MINUS", Num(7))),
      Assignment(Var("msg"), Str(TXT_HO)),
      Assignment(Var("p"), AddrOf(Var("val"))),
      Assignment(Deref(Var("p")), Num(5)),
      Assignment(Deref(Var("val")), Num(5)),
      Assignment(Var("val"), Call("id", <<Num(7)>>)),
      PrintStmt(Var("val")),
      PrintStmt(Var("msg")),
      PrintStmt(Str(TXT_HI)),
      PrintStmt(Deref(AddrOf(Var("val")))),
      Call("greet", <<>>),
      IfStmt(BinaryOp(Var("val"), "EQ", Num(0)),
             <<ReturnStmt(Num(5))>>, <<ReturnStmt(Num(9))>>),
      ReturnStmt(Num(5)) }

\* val = 123; msg = "Hello"; print(val); print(msg);
ScenarioA ==
    << Assignment(Var("val"), Num(123)), Assignment(Var("msg"), Str(TXT_HELLO)),
       PrintStmt(Var("val")), PrintStmt(Var("msg")) >>

\* val = 123; msg = "Ho"; print(val); print(msg);
GlobalsBody ==
    << Assignment(Var("val"), Num(123)), Assignment(Var("msg"), Str(TXT_HO)),
       PrintStmt(Var("val")), PrintStmt(Var("msg")) >>

\* further bodies of main, each run after int val; char *msg; int *p;
Bodies ==
    { <<Assignment(Var("val"), Call("nop", <<>>))>>,
      <<PrintStmt(Call("nop", <<>>))>>,
      <<VarDecl(T_INT, "x"), Call("id", <<>>)>>,
      <<Call("nop", <<Call("id", <<Num(7)>>)>>)>>,
      <<DebugStmt, VarDecl(T_INT, "x"), DebugStmt>>,
      <<DebugStmt, PrintStmt(Var("val"))>>,
      <<Assignment(Var("val"), BinaryOp(Num(0), "MINUS", Num(7))),
        PrintStmt(BinaryOp(Var("val"), "DIV", Num(2)))>>,
      <<Call("undefined", <<>>)>>,
      <<VarDecl(T_VOID, "v"), Call("id", <<Num(7)>>)>>,
      <<Call("id", <<Num(7)>>), Call("id", <<Num(300)>>)>>,
      <<VarDecl(T_CHAR, "c"), Assignment(Var("c"), Num(2000)), VarDecl(T_INT, "x"),
        PrintStmt(Var("c"))>>,
      \* a literal set_byte_value refuses
      <<PrintStmt(Str(TXT_HI)), PrintStmt(Str(TXT_WIDE))>> }

\* int val;
\* int pick() { if (1 == 1) { return 5; print("Hi"); } else { return 9; } print("Ho"); }
\* int outer() { val = pick(); print(val); return val + 1; print("Ho"); }
\* void main() { val = outer(); print(val); }
ScenarioB ==
    << VarDecl(T_INT, "val"),
       FunctionDef(T_INT, "pick", <<>>,
           << IfStmt(BinaryOp(Num(1), "EQ", Num(1)),
                     <<ReturnStmt(Num(5)), PrintStmt(Str(TXT_HI))>>,
                     <<ReturnStmt(Num(9))>>),
              PrintStmt(Str(TXT_HO)) >>),
       FunctionDef(T_INT, "outer", <<>>,
           << Assignment(Var("val"), Call("pick", <<>>)),
              PrintStmt(Var("val")),
              ReturnStmt(BinaryOp(Var("val"), "PLUS", Num(1))),
              PrintStmt(Str(TXT_HO)) >>),
       Main(<<Assignment(Var("val"), Call("outer", <<>>)), PrintStmt(Var("val"))>>) >>

\* int val; void probe() { int x; x = 7; debug; } void main() { probe(); debug; }
ScenarioD ==
    << VarDecl(T_INT, "val"),
       FunctionDef(T_VOID, "probe", <<>>,
           <<VarDecl(T_INT, "x"), Assignment(Var("x"), Num(7)), DebugStmt>>),
       Main(<<Call("probe", <<>>), DebugStmt>>) >>

\* a program without main whose only function prints and breaks
ScenarioN ==
    << VarDecl(T_INT, "val"),
       FunctionDef(T_VOID, "probe", <<>>,
           <<VarDecl(T_INT, "x"), Assignment(Var("x"), Num(7)), DebugStmt,
             PrintStmt(Var("x"))>>) >>

\* int val;
\* int shadow(int val) { val = 9; return val; }
\* void peek() { print(x); }
\* void main() { int x; x = 3; val = 1; x = shadow(4); print(val); print(x); peek(); }
ScenarioL ==
    << VarDecl(T_INT, "val"),
       FunctionDef(T_INT, "shadow", <<"val">>,
           <<Assignment(Var("val"), Num(9)), ReturnStmt(Var("val"))>>),
       FunctionDef(T_VOID, "peek", <<>>, <<PrintStmt(Var("x"))>>),
       Main(<< VarDecl(T_INT, "x"), Assignment(Var("x"), Num(3)),
               Assignment(Var("val"), Num(1)),
               Assignment(Var("x"), Call("shadow", <<Num(4)>>)),
               PrintStmt(Var("val")), PrintStmt(Var("x")), Call("peek", <<>>) >>) >>

\* void nop() { }   int relay() { return nop(); }   void main() { print(relay()); }
ScenarioR ==
    << FunctionDef(T_VOID, "nop", <<>>, <<>>),
       FunctionDef(T_INT, "relay", <<>>, <<ReturnStmt(Call("nop", <<>>))>>),
       Main(<<PrintStmt(Call("relay", <<>>))>>) >>

\* int fall() { }   void *vp() { }   void nop() { }
\* void main() { print(fall()); print(vp()); print(nop()); }
ScenarioF ==
    << FunctionDef(T_INT, "fall", <<>>, <<>>),
       FunctionDef(Type("void", 1), "vp", <<>>, <<>>),
       FunctionDef(T_VOID, "nop", <<>>, <<>>),
       Main(<< PrintStmt(Call("fall", <<>>)), PrintStmt(Call("vp", <<>>)),
               PrintStmt(Call("nop", <<>>)) >>) >>

\* whole programs run as they are
Scenarios == {ScenarioB, ScenarioD, ScenarioN, ScenarioL, ScenarioR, ScenarioF}

Programs ==
    \* any globals, declared before or after the functions
    {gl \o Library \o <<Main(GlobalsBody)>> : gl \in SeqsUpTo(GlobalDecls, MaxGlobals)}
    \cup {Library \o <<Main(GlobalsBody)>> \o gl : gl \in SeqsUpTo(GlobalDecls, MaxGlobals)}
    \* any short body of main
    \cup {StdGlobals \o Library \o <<Main(body)>> : body \in SeqsUpTo(Stmts, MaxStmts)}
    \cup {StdGlobals \o Library \o <<Main(body)>> : body \in Bodies}
    \* scenario A, and a program without main
    \cup {<<VarDecl(T_INT, "val"), VarDecl(T_CHAR_PTR, "msg"), Main(ScenarioA)>>}
    \cup {StdGlobals \o Library}
    \cup Scenarios

Init ==
    /\ heap = <<>>
    /\ next_free_address = FIRST_ADDRESS
    /\ memCall = NoCall
    /\ memSteps = 0
    /\ calc = NoCalc
    /\ program \in Programs
    /\ static_idx = 1
    /\ functions = <<>>
    /\ global_symtable = <<>>
    /\ string_literals = <<>>
    /\ call_stack = <<>>
    /\ ctl = <<>>
    /\ output = <<>>
    /\ debug_log = <<>>
    /\ phase = "static"
    /\ err = ""
    /\ text = <<>>
    /\ pos = 0
    /\ tokens = <<>>
    /\ token_idx = 0
    /\ ast = <<>>
    /\ advanced = <<>>

Next ==
    \/ StaticFunctionDef
    \/ StaticVarDecl
    \/ StartMain
    \/ MissingMain
    \/ ProgramFinish
    \/ CallFunction
    \/ FunctionEnd
    \/ VisitReturn
    \/ CallStatementDone
    \/ VisitVarDecl
    \/ VisitAssignment
    \/ VisitPrint
    \/ VisitDebug
    \/ VisitIf

Spec == Init /\ [][Next]_vars

\* the state before interpreter.visit(ast) is called
InitVisit ==
    /\ heap = <<>>
    /\ next_free_address = FIRST_ADDRESS
    /\ memCall = NoCall
    /\ memSteps = 0
    /\ calc = NoCalc
    /\ program = <<>>
    /\ static_idx = 1
    /\ functions = <<>>
    /\ global_symtable = <<>>
    /\ string_literals = <<>>
    /\ call_stack = <<>>
    /\ ctl = <<>>
    /\ output = <<>>
    /\ debug_log = <<>>
    /\ phase = "visit"
    /\ err = ""
    /\ text = <<>>
    /\ pos = 0
    /\ tokens = <<>>
    /\ token_idx = 0
    /\ ast = <<>>
    /\ advanced = <<>>

\* the programs visited under fairness: the scenarios, and after
\* int val; char *msg; int *p; and the library every body and every statement
VisitedPrograms ==
    Scenarios
    \cup {StdGlobals \o Library \o <<Main(body)>> : body \in Bodies}
    \cup {StdGlobals \o Library \o <<Main(<<stmt>>)>> : stmt \in Stmts}
    \cup {<<VarDecl(T_INT, "val"), VarDecl(T_CHAR_PTR, "msg"), Main(ScenarioA)>>}
    \cup {StdGlobals \o Library}

\* interpreter.visit(ast): visit_ProgramNode is entered with a program
VisitProgram ==
    /\ phase = "visit"
    /\ program' \in VisitedPrograms
    /\ phase' = "static"
    /\ UNCHANGED <<memVars, directVars, static_idx, functions, global_symtable,
                   string_literals, call_stack, ctl, output, debug_log, err>>

NextVisit == VisitProgram \/ Next

\* visit_ProgramNode runs on one thread from the first declaration to the
\* last statement: a step that can be taken is taken, and the debug sink
\* returns to the evaluator
SpecFair == InitVisit /\ [][NextVisit]_vars /\ WF_vars(NextVisit)

(***************************************************************************)
(* SpecDiv: one division a / b as visit_BinaryOpNode computes it, each     *)
(* operand either the value of an expression (0 - 7) or a variable that    *)
(* was declared, assigned the value and read back.                         *)
(***************************************************************************)
InitDiv ==
    /\ heap = <<>>
    /\ next_free_address = FIRST_ADDRESS
    /\ memCall = NoCall
    /\ memSteps = 0
    /\ calc \in {[pc |-> "operands", a |-> a, b |-> b] :
                    a \in -MaxOperand .. MaxOperand, b \in -MaxOperand .. MaxOperand}
    /\ program = <<>>
    /\ static_idx = 1
    /\ functions = <<>>
    /\ global_symtable = <<>>
    /\ string_literals = <<>>
    /\ call_stack = <<>>
    /\ ctl = <<>>
    /\ output = <<>>
    /\ debug_log = <<>>
    /\ phase = "calc"
    /\ err = ""
    /\ text = <<>>
    /\ pos = 0
    /\ tokens = <<>>
    /\ token_idx = 0
    /\ ast = <<>>
    /\ advanced = <<>>

\* int x; x = value; and the value of the expression x afterwards
StoredOperand(h, nfa, value) ==
    LET d == DeclareVariable(h, nfa, T_INT)
        h2 == SetIntHeap(d.heap, PyInt(d.symbol.address), value)
    IN [heap |-> h2, next_free_address |-> d.next_free_address,
        value |-> GetInt(h2, PyInt(d.symbol.address))]

\* both operands are values of expressions
CalcImmediate ==
    /\ phase = "calc"
    /\ calc.pc = "operands"
    /\ calc' = [pc |-> "ready", a |-> calc.a, b |-> calc.b, stored |-> {},
                left |-> PyInt(calc.a), right |-> PyInt(calc.b)]
    /\ UNCHANGED <<memVars, memCall, memSteps, interpVars, lexVars, parseVars>>

\* the left operand, the right operand or both are variables read back
CalcStored ==
    /\ phase = "calc"
    /\ calc.pc = "operands"
    /\ \E stored \in {{"left"}, {"right"}, {"left", "right"}} :
        LET l == IF "left" \in stored
                 THEN StoredOperand(heap, next_free_address, PyInt(calc.a))
                 ELSE [heap |-> heap, next_free_address |-> next_free_address,
                       value |-> PyInt(calc.a)]
            r == IF "right" \in stored
                 THEN StoredOperand(l.heap, l.next_free_address, PyInt(calc.b))
                 ELSE [heap |-> l.heap, next_free_address |-> l.next_free_address,
                       value |-> PyInt(calc.b)]
        IN /\ heap' = r.heap
           /\ next_free_address' = r.next_free_address
           /\ calc' = [pc |-> "ready", a |-> calc.a, b |-> calc.b, stored |-> stored,
                       left |-> l.value, right |-> r.value]
    /\ UNCHANGED <<memCall, memSteps, interpVars, lexVars, parseVars>>

\* left / right
CalcDivide ==
    /\ phase = "calc"
    /\ calc.pc = "ready"
    /\ calc' = [pc |-> "done", a |-> calc.a, b |-> calc.b, stored |-> calc.stored,
                left |-> calc.left, right |-> calc.right,
                result |-> ApplyBinaryOp("DIV", calc.left, calc.right)]
    /\ UNCHANGED <<memVars, memCall, memSteps, interpVars, lexVars, parseVars>>

NextDiv == CalcImmediate \/ CalcStored \/ CalcDivide

SpecDiv == InitDiv /\ [][NextDiv]_vars

(***************************************************************************)
(* SpecAll: a run is either a program run by the interpreter or a          *)
(* sequence of direct Memory calls.                                        *)
(***************************************************************************)
InitAll == Init \/ InitMem
NextAll == Next \/ NextMem
SpecAll == InitAll /\ [][NextAll]_vars

(***************************************************************************)
(* SpecLex: Lexer.make_tokens on a source text.  A character is a string   *)
(* of length one, a text a sequence of characters; pos counts from 0 as in *)
(* the code.  A Token is a record of its type and value, the value being   *)
(* a Python int for INT, a string for STRING, ID and KEYWORD, and None     *)
(* otherwise.                                                              *)
(***************************************************************************)
MaxTextLen == 3        \* length of a generated source text

TT_INT == "INT"
TT_STRING == "STRING"
TT_ID == "ID"
TT_PLUS == "PLUS"
TT_MINUS == "MINUS"
TT_DIV == "DIV"
TT_ASSIGN == "ASSIGN"
TT_EQ == "EQ"
TT_NEQ == "NEQ"
TT_LT == "LT"
TT_GT == "GT"
TT_SEMICOLON == "SEMICOLON"
TT_LPAREN == "LPAREN"
TT_RPAREN == "RPAREN"
TT_LBRACE == "LBRACE"
TT_RBRACE == "RBRACE"
TT_COMMA == "COMMA"
TT_KEYWORD == "KEYWORD"
TT_EOF == "EOF"
TT_AMPERSAND == "AMPERSAND"
TT_ASTERISK == "ASTERISK"

Token(type, value) == [type |-> type, value |-> value]

\* str.isspace, str.isdigit, str.isalpha on the characters of the model
Spaces == {" ", "\n", "\t"}
Digits == {"0", "1", "2", "3", "4", "5", "6", "7", "8", "9"}
Letters == {"a", "b", "c", "d", "e", "f", "g", "h", "i", "j", "k", "l", "m", "n",
            "o", "p", "q", "r", "s", "t", "u", "v", "w", "x", "y", "z"}
DigitValue(c) ==
    CASE c = "0" -> 0 [] c = "1" -> 1 [] c = "2" -> 2 [] c = "3" -> 3 [] c = "4" -> 4
      [] c = "5" -> 5 [] c = "6" -> 6 [] c = "7" -> 7 [] c = "8" -> 8 [] c = "9" -> 9

\* 10 * a for a Python int a >= 0
PyTimes10(a) == <<a[1] * 10 + (a[2] * 10) \div Base, (a[2] * 10) % Base>>

RECURSIVE ParseInt(_)
\* int(num_str) for a string of decimal digits
ParseInt(num_str) ==
    IF num_str = <<>> THEN PyInt(0)
    ELSE PyAdd(PyTimes10(ParseInt(Pop(num_str))),
               PyInt(DigitValue(num_str[Len(num_str)])))

KEYWORDS == {"int", "void", "return", "print", "debug", "if", "else", "char"}

\* the branches of make_tokens that append one token for one character
SingleCharTokens ==
    [c \in {"&", "*", "<", ">", "+", "-", ";", "(", ")", "{", "}", ","} |->
        CASE c = "&" -> TT_AMPERSAND [] c = "*" -> TT_ASTERISK
          [] c = "<" -> TT_LT [] c = ">" -> TT_GT
          [] c = "+" -> TT_PLUS [] c = "-" -> TT_MINUS
          [] c = ";" -> TT_SEMICOLON
          [] c = "(" -> TT_LPAREN [] c = ")" -> TT_RPAREN
          [] c = "{" -> TT_LBRACE [] c = "}" -> TT_RBRACE
          [] c = "," -> TT_COMMA]

\* Lexer.current_char once pos is p; "" stands for None
CharAt(t, p) == IF p < Len(t) THEN t[p + 1] ELSE ""
current_char == CharAt(text, pos)
\* Lexer.peek: the next character, or a Token, which equals no character
PeekAt(t, p) == IF p + 1 < Len(t) THEN t[p + 2] ELSE "Token(EOF, None)"
peek == PeekAt(text, pos)

RECURSIVE RunEnd(_, _, _)
\* where a loop 'while current_char is not None and current_char in S: advance()'
\* started at p stops
RunEnd(t, p, S) ==
    IF p < Len(t) /\ t[p + 1] \in S THEN RunEnd(t, p + 1, S) ELSE p

RECURSIVE UntilChar(_, _, _)
\* where a loop 'while current_char is not None and current_char != c: advance()'
\* started at p stops
UntilChar(t, p, c) ==
    IF p < Len(t) /\ t[p + 1] # c THEN UntilChar(t, p + 1, c) ELSE p

\* Lexer.skip_comment
SkipComment(t, p) == UntilChar(t, p, "\n")

RECURSIVE SkipMultilineComment(_, _)
\* Lexer.skip_multiline_comment
SkipMultilineComment(t, p) ==
    IF p >= Len(t) THEN p
    ELSE IF t[p + 1] = "*" /\ PeekAt(t, p) = "/" THEN p + 2
    ELSE SkipMultilineComment(t, p + 1)

\* the characters at positions from .. to - 1, as a sequence and as a string
Slice(t, from, to) == [i \in 1 .. to - from |-> t[from + i]]
RECURSIVE Join(_, _, _)
Join(t, from, to) == IF from >= to THEN "" ELSE t[from + 1] \o Join(t, from + 1, to)

\* the characters of generated texts: white space, a digit, a letter, a quote,
\* the characters of comments, =, !, a one-character token and an illegal one
LexAlphabet == {"\n", "1", "a", "\"", "/", "*", "=", "!", ";", "@"}
LexSamples ==
    {
      \* a comment and a string hold what would be illegal outside them
      <<"/", "*", "@", "*", "/", "\"", "!", "\"">>,
      \* a declaration and a line comment
      <<"i", "n", "t", " ", "x", "1", ";", " ", "/", "/", " ", "!", "\n">>,
      \* operators
      <<"a", " ", "!", "=", " ", "1", "2", " ", "/">>,
      \* a comment that is never closed
      <<"/", "*", "/", " ", "\"">>,
      \* the third quote opens a string that is never closed
      <<"\"", "a", "\"", "b", "\"">>,
      \* a condition
      <<"i", "f", " ", "(", "a", " ", "=", "=", " ", "1", ")", " ", "{", " ", "}">>,
      \* ! and = apart
      <<"1", " ", "!", " ", "=">> }
SourceTexts == SeqsUpTo(LexAlphabet, MaxTextLen) \cup LexSamples

InitLex ==
    /\ heap = <<>>
    /\ next_free_address = FIRST_ADDRESS
    /\ memCall = NoCall
    /\ memSteps = 0
    /\ calc = NoCalc
    /\ program = <<>>
    /\ static_idx = 1
    /\ functions = <<>>
    /\ global_symtable = <<>>
    /\ string_literals = <<>>
    /\ call_stack = <<>>
    /\ ctl = <<>>
    /\ output = <<>>
    /\ debug_log = <<>>
    /\ phase = "source"
    /\ err = ""
    /\ text = <<>>
    /\ pos = 0
    /\ tokens = <<>>
    /\ token_idx = 0
    /\ ast = <<>>
    /\ advanced = <<>>

Lexing == phase = "lex" /\ current_char # ""
LexKeep ==
    UNCHANGED <<memVars, memCall, memSteps, calc, interpVarsButPhase, text, parseVars>>
LexGoOn == UNCHANGED <<phase, err>>
LexRaise(e) == phase' = "lexerror" /\ err' = e /\ UNCHANGED <<pos, tokens>>

\* Lexer(text): the constructor, which sets pos to 0 by its call of advance
LexerInit ==
    /\ phase = "source"
    /\ text' \in SourceTexts
    /\ pos' = 0
    /\ phase' = "lex"
    /\ UNCHANGED <<memVars, memCall, memSteps, calc, interpVarsButPhase, tokens, err,
                   parseVars>>

\* if self.current_char.isspace(): self.advance()
LexSpace ==
    /\ Lexing
    /\ current_char \in Spaces
    /\ pos' = pos + 1
    /\ UNCHANGED tokens
    /\ LexGoOn /\ LexKeep

\* elif self.current_char.isdigit(): tokens.append(self._make_number())
LexNumber ==
    /\ Lexing
    /\ current_char \in Digits
    /\ LET end == RunEnd(text, pos, Digits)
       IN /\ pos' = end
          /\ tokens' = Append(tokens, Token(TT_INT, ParseInt(Slice(text, pos, end))))
    /\ LexGoOn /\ LexKeep

\* elif self.current_char.isalpha() or '_': tokens.append(self._make_identifier())
LexIdentifier ==
    /\ Lexing
    /\ current_char \in Letters \cup {"_"}
    /\ LET end == RunEnd(text, pos, Letters \cup Digits \cup {"_"})
           id_str == Join(text, pos, end)
       IN /\ pos' = end
          /\ tokens' = Append(tokens, IF id_str \in KEYWORDS
                                      THEN Token(TT_KEYWORD, id_str)
                                      ELSE Token(TT_ID, id_str))
    /\ LexGoOn /\ LexKeep

\* a string that runs to the end of the text taken as closed there: a faulty variant
LexStringOpenEnded ==
    /\ Lexing
    /\ current_char = "\""
    /\ LET end == UntilChar(text, pos + 1, "\"")
       IN /\ pos' = end + 1
          /\ tokens' = Append(tokens, Token(TT_STRING, Join(text, pos + 1, end)))
          /\ LexGoOn
    /\ LexKeep

\* elif self.current_char == '"': self.advance(); tokens.append(self._make_string())
LexString ==
    /\ Lexing
    /\ current_char = "\""
    /\ LET end == UntilChar(text, pos + 1, "\"")
       IN IF CharAt(text, end) # "\""
          THEN LexRaise("UnterminatedString")
          ELSE /\ pos' = end + 1
               /\ tokens' = Append(tokens, Token(TT_STRING, Join(text, pos + 1, end)))
               /\ LexGoOn
    /\ LexKeep

\* elif self.current_char == '/': a comment, which is skipped, or TT_DIV
LexSlash ==
    /\ Lexing
    /\ current_char = "/"
    /\ IF peek = "/"
       THEN pos' = SkipComment(text, pos + 2) /\ UNCHANGED tokens
       ELSE IF peek = "*"
       THEN pos' = SkipMultilineComment(text, pos + 2) /\ UNCHANGED tokens
       ELSE pos' = pos + 1 /\ tokens' = Append(tokens, Token(TT_DIV, None))
    /\ LexGoOn /\ LexKeep

\* the branches for & * < > + - ; ( ) { } ,
LexSingleChar ==
    /\ Lexing
    /\ current_char \in DOMAIN SingleCharTokens
    /\ tokens' = Append(tokens, Token(SingleCharTokens[current_char], None))
    /\ pos' = pos + 1
    /\ LexGoOn /\ LexKeep

\* elif self.current_char == '=': TT_EQ for '==', else TT_ASSIGN
LexEquals ==
    /\ Lexing
    /\ current_char = "="
    /\ IF peek = "="
       THEN pos' = pos + 2 /\ tokens' = Append(tokens, Token(TT_EQ, None))
       ELSE pos' = pos + 1 /\ tokens' = Append(tokens, Token(TT_ASSIGN, None))
    /\ LexGoOn /\ LexKeep

\* elif self.current_char == '!': TT_NEQ for '!=', else an exception
LexBang ==
    /\ Lexing
    /\ current_char = "!"
    /\ IF peek = "="
       THEN pos' = pos + 2 /\ tokens' = Append(tokens, Token(TT_NEQ, None)) /\ LexGoOn
       ELSE LexRaise("IllegalCharacter")
    /\ LexKeep

\* else: raise Exception
LexIllegalChar ==
    /\ Lexing
    /\ current_char \notin Spaces \cup Digits \cup Letters
                           \cup {"_", "\"", "/", "=", "!"} \cup DOMAIN SingleCharTokens
    /\ LexRaise("IllegalCharacter")
    /\ LexKeep

\* the end of the loop: tokens.append(Token(TT_EOF)); return tokens
LexEnd ==
    /\ phase = "lex"
    /\ current_char = ""
    /\ tokens' = Append(tokens, Token(TT_EOF, None))
    /\ phase' = "lexed"
    /\ UNCHANGED <<pos, err>>
    /\ LexKeep

NextLex ==
    \/ LexerInit
    \/ LexSpace
    \/ LexNumber
    \/ LexIdentifier
    \/ LexString
    \/ LexSlash
    \/ LexSingleChar
    \/ LexEquals
    \/ LexBang
    \/ LexIllegalChar
    \/ LexEnd

SpecLex == InitLex /\ [][NextLex]_vars

\* make_tokens is one loop without suspension points: it keeps running
SpecLexFair == SpecLex /\ WF_vars(NextLex)

(***************************************************************************)
(* SpecParse: Parser.parse on a token sequence.  The recursive descent is  *)
(* a family of recursive operators on the token sequence ts, the value i   *)
(* of token_idx and the record adv of blind advances so far; each yields   *)
(* the exception raised, or the new token_idx, the new record and the node *)
(* built.                                                                  *)
(***************************************************************************)
MaxTokens == 3         \* length of a generated token sequence, before its EOF

TT_MUL == "MUL"

\* Parser.current_token once token_idx is i
current_token(ts, i) == IF i < Len(ts) THEN ts[i + 1] ELSE Token(TT_EOF, None)

POk(i, adv, node) == [err |-> "", idx |-> i, adv |-> adv, node |-> node]
PErr(e) == [err |-> e, idx |-> 0, adv |-> <<>>, node |-> None]
\* self.advance() at index i, where place names the call
Blind(adv, i, place) == Append(adv, [at |-> i, place |-> place])

NumberNode(value) == [node |-> "Number", value |-> value]
TypeKeywords == {"int", "void", "char"}
IsKeyword(tok, values) == tok.type = TT_KEYWORD /\ tok.value \in values

RECURSIVE StarsEnd(_, _)
\* while self.current_token.type == TT_ASTERISK: self.advance()
StarsEnd(ts, i) ==
    IF current_token(ts, i).type = TT_ASTERISK THEN StarsEnd(ts, i + 1) ELSE i

\* Parser.get_type_string: the type, base and number of stars, and the new index
get_type_string(ts, i) ==
    [type |-> Type(current_token(ts, i).value, StarsEnd(ts, i + 1) - (i + 1)),
     idx |-> StarsEnd(ts, i + 1)]

RECURSIVE PeekStars(_, _)
\* while self.tokens[i].type == TT_ASTERISK: i += 1
PeekStars(ts, k) ==
    IF k < Len(ts) /\ ts[k + 1].type = TT_ASTERISK THEN PeekStars(ts, k + 1) ELSE k

\* Parser.peek_for_assignment, which indexes self.tokens directly
peek_for_assignment(ts, i) ==
    LET k == PeekStars(ts, i)
    IN IF k >= Len(ts) THEN "IndexError"
       ELSE IF ts[k + 1].type # TT_ID THEN "False"
       ELSE IF k + 1 >= Len(ts) THEN "IndexError"
       ELSE IF ts[k + 2].type = TT_ASSIGN THEN "True" ELSE "False"


\* one Parser method calls another through descend, defined after the methods
RECURSIVE descend(_, _, _, _, _)

\* Parser.parse_arguments
arguments_rest(ts, a) ==
    IF current_token(ts, a.idx).type = TT_COMMA
    THEN LET e == descend("expression", ts, a.idx + 1, a.adv, None)
         IN IF e.err # "" THEN e
            ELSE descend("arguments_rest", ts, 0, <<>>, POk(e.idx, e.adv, Append(a.node, e.node)))
    ELSE a
parse_arguments(ts, i, adv) ==
    IF current_token(ts, i).type = TT_RPAREN THEN POk(i, adv, <<>>)
    ELSE LET e == descend("expression", ts, i, adv, None)
         IN IF e.err # "" THEN e
            ELSE descend("arguments_rest", ts, 0, <<>>, POk(e.idx, e.adv, <<e.node>>))

\* Parser.function_call, entered at an ID that '(' follows
function_call(ts, i, adv) ==
    LET a == descend("parse_arguments", ts, i + 2, adv, None)
    IN IF a.err # "" THEN a
       ELSE POk(IF current_token(ts, a.idx + 1).type = TT_SEMICOLON
                THEN a.idx + 2 ELSE a.idx + 1,
                Blind(a.adv, a.idx, "call.rparen"),
                Call(current_token(ts, i).value, a.node))

\* Parser.factor
factor(ts, i, adv) ==
    LET tok == current_token(ts, i)
    IN IF tok.type \in {TT_AMPERSAND, TT_ASTERISK}
       THEN LET operand == descend("factor", ts, i + 1, adv, None)
            IN IF operand.err # "" THEN operand
               ELSE POk(operand.idx, operand.adv, UnaryOp(tok.type, operand.node))
       ELSE IF tok.type = TT_INT THEN POk(i + 1, adv, NumberNode(tok.value))
       ELSE IF tok.type = TT_STRING THEN POk(i + 1, adv, Str(tok.value))
       ELSE IF tok.type = TT_ID
       THEN IF current_token(ts, i + 1).type = TT_LPAREN THEN descend("function_call", ts, i, adv, None)
            ELSE POk(i + 1, adv, Var(tok.value))
       ELSE IF tok.type = TT_LPAREN
       THEN LET e == descend("expression", ts, i + 1, adv, None)
            IN IF e.err # "" THEN e
               ELSE POk(e.idx + 1, Blind(e.adv, e.idx, "paren.rparen"), e.node)
       ELSE PErr("ExpressionError")

\* Parser.term: bin_op(self.factor, [TT_MUL, TT_DIV])
term_rest(ts, left) ==
    IF current_token(ts, left.idx).type \in {TT_MUL, TT_DIV}
    THEN LET right == descend("factor", ts, left.idx + 1, left.adv, None)
         IN IF right.err # "" THEN right
            ELSE descend("term_rest", ts, 0, <<>>, POk(right.idx, right.adv,
                    BinaryOp(left.node, current_token(ts, left.idx).type, right.node)))
    ELSE left
term(ts, i, adv) ==
    LET left == descend("factor", ts, i, adv, None)
    IN IF left.err # "" THEN left ELSE descend("term_rest", ts, 0, <<>>, left)

\* Parser.arithmetic: bin_op(self.term, [TT_PLUS, TT_MINUS])
arithmetic_rest(ts, left) ==
    IF current_token(ts, left.idx).type \in {TT_PLUS, TT_MINUS}
    THEN LET right == descend("term", ts, left.idx + 1, left.adv, None)
         IN IF right.err # "" THEN right
            ELSE descend("arithmetic_rest", ts, 0, <<>>, POk(right.idx, right.adv,
                    BinaryOp(left.node, current_token(ts, left.idx).type, right.node)))
    ELSE left
arithmetic(ts, i, adv) ==
    LET left == descend("term", ts, i, adv, None)
    IN IF left.err # "" THEN left ELSE descend("arithmetic_rest", ts, 0, <<>>, left)

\* Parser.comparison
comparison_rest(ts, left) ==
    IF current_token(ts, left.idx).type \in {TT_EQ, TT_NEQ, TT_LT, TT_GT}
    THEN LET right == descend("arithmetic", ts, left.idx + 1, left.adv, None)
         IN IF right.err # "" THEN right
            ELSE descend("comparison_rest", ts, 0, <<>>, POk(right.idx, right.adv,
                    BinaryOp(left.node, current_token(ts, left.idx).type, right.node)))
    ELSE left
comparison(ts, i, adv) ==
    LET left == descend("arithmetic", ts, i, adv, None)
    IN IF left.err # "" THEN left ELSE descend("comparison_rest", ts, 0, <<>>, left)

\* Parser.expression
expression(ts, i, adv) == descend("comparison", ts, i, adv, None)

\* Parser.assignment
assignment(ts, i, adv) ==
    LET target == descend("factor", ts, i, adv, None)
    IN IF target.err # "" THEN target
       ELSE IF current_token(ts, target.idx).type # TT_ASSIGN THEN PErr("AssignExpected")
       ELSE LET e == descend("expression", ts, target.idx + 1, target.adv, None)
            IN IF e.err # "" THEN e
               ELSE POk(e.idx + 1, Blind(e.adv, e.idx, "assignment.semicolon"),
                        Assignment(target.node, e.node))

\* Parser.block_statement
block_rest(ts, body) ==
    IF current_token(ts, body.idx).type \in {TT_RBRACE, TT_EOF}
    THEN POk(body.idx + 1, Blind(body.adv, body.idx, "block.rbrace"), body.node)
    ELSE LET s == descend("statement", ts, body.idx, body.adv, None)
         IN IF s.err # "" THEN s
            ELSE descend("block_rest", ts, 0, <<>>, POk(s.idx, s.adv, Append(body.node, s.node)))
block_statement(ts, i, adv) == descend("block_rest", ts, 0, <<>>, POk(i, adv, <<>>))

\* Parser.if_statement
if_statement(ts, i, adv) ==
    LET condition == descend("expression", ts, i + 2, Blind(adv, i + 1, "if.lparen"), None)
    IN IF condition.err # "" THEN condition
       ELSE LET true_body ==
                    descend("block_statement", ts, condition.idx + 2,
                        Blind(Blind(condition.adv, condition.idx, "if.rparen"),
                              condition.idx + 1, "if.lbrace"), None)
            IN IF true_body.err # "" THEN true_body
               ELSE IF IsKeyword(current_token(ts, true_body.idx), {"else"})
               THEN LET false_body ==
                            descend("block_statement", ts, true_body.idx + 2,
                                Blind(true_body.adv, true_body.idx + 1, "else.lbrace"), None)
                    IN IF false_body.err # "" THEN false_body
                       ELSE POk(false_body.idx, false_body.adv,
                                IfStmt(condition.node, true_body.node, false_body.node))
               ELSE POk(true_body.idx, true_body.adv,
                        IfStmt(condition.node, true_body.node, None))

\* print ( expression ) ;
print_statement(ts, i, adv) ==
    LET e == descend("expression", ts, i + 2, Blind(adv, i + 1, "print.lparen"), None)
    IN IF e.err # "" THEN e
       ELSE POk(e.idx + 2,
                Blind(Blind(e.adv, e.idx, "print.rparen"), e.idx + 1, "print.semicolon"),
                PrintStmt(e.node))

\* return expression ;
return_statement(ts, i, adv) ==
    LET e == descend("expression", ts, i + 1, adv, None)
    IN IF e.err # "" THEN e
       ELSE POk(e.idx + 1, Blind(e.adv, e.idx, "return.semicolon"), ReturnStmt(e.node))

\* Parser.statement
statement(ts, i, adv) ==
    LET tok == current_token(ts, i)
        g == get_type_string(ts, i)
    IN IF IsKeyword(tok, TypeKeywords)
       THEN POk(g.idx + 2,
                Blind(Blind(adv, g.idx, "declaration.name"), g.idx + 1,
                      "declaration.semicolon"),
                VarDecl(g.type, current_token(ts, g.idx).value))
       ELSE IF /\ tok.type \in {TT_ID, TT_ASTERISK, TT_AMPERSAND}
               /\ peek_for_assignment(ts, i) = "IndexError"
       THEN PErr("IndexError")
       ELSE IF /\ tok.type \in {TT_ID, TT_ASTERISK, TT_AMPERSAND}
               /\ peek_for_assignment(ts, i) = "True"
       THEN descend("assignment", ts, i, adv, None)
       ELSE IF IsKeyword(tok, {"print"}) THEN descend("print_statement", ts, i, adv, None)
       ELSE IF IsKeyword(tok, {"debug"})
       THEN POk(i + 2, Blind(adv, i + 1, "debug.semicolon"), DebugStmt)
       ELSE IF IsKeyword(tok, {"if"}) THEN descend("if_statement", ts, i, adv, None)
       ELSE IF IsKeyword(tok, {"return"}) THEN descend("return_statement", ts, i, adv, None)
       ELSE IF tok.type = TT_ID /\ current_token(ts, i + 1).type = TT_LPAREN
       THEN descend("function_call", ts, i, adv, None)
       ELSE PErr("StatementError")

\* Parser.parse_params: the parameters are kept as their ID tokens
params_rest(ts, params) ==
    IF current_token(ts, params.idx).type = TT_RPAREN THEN params
    ELSE IF ~IsKeyword(current_token(ts, params.idx), {"int", "char"})
    THEN PErr("ParameterTypeExpected")
    ELSE LET k == StarsEnd(ts, params.idx + 1)
         IN IF current_token(ts, k).type # TT_ID THEN PErr("ParameterNameExpected")
            ELSE IF current_token(ts, k + 1).type = TT_COMMA
            THEN descend("params_rest", ts, 0, <<>>, POk(k + 2, params.adv,
                                     Append(params.node, current_token(ts, k))))
            ELSE IF current_token(ts, k + 1).type # TT_RPAREN
            THEN PErr("ParameterSeparatorExpected")
            ELSE descend("params_rest", ts, 0, <<>>, POk(k + 1, params.adv,
                                     Append(params.node, current_token(ts, k))))
parse_params(ts, i, adv) == descend("params_rest", ts, 0, <<>>, POk(i, adv, <<>>))

\* Parser.function_definition_continue, entered at the '(' after the name
function_definition_continue(ts, i, adv, return_type, func_name) ==
    LET params == descend("parse_params", ts, i + 1, adv, None)
    IN IF params.err # "" THEN params
       ELSE LET body == descend("block_statement", ts, params.idx + 2,
                            Blind(params.adv, params.idx + 1, "function.lbrace"), None)
            IN IF body.err # "" THEN body
               ELSE POk(body.idx, body.adv,
                        FunctionDef(return_type, func_name, params.node, body.node))

\* Parser.var_declaration_continue, entered after the name
var_declaration_continue(ts, i, adv, var_type, var_name) ==
    POk(i + 1, Blind(adv, i, "global.semicolon"), VarDecl(var_type, var_name))

\* Parser.top_level_declaration
top_level_declaration(ts, i, adv) ==
    LET g == get_type_string(ts, i)
    IN IF current_token(ts, g.idx).type # TT_ID THEN PErr("NameExpected")
       ELSE IF g.idx + 1 >= Len(ts) THEN PErr("IndexError")
       ELSE IF ts[g.idx + 2].type = TT_LPAREN
       THEN descend("function_definition_continue", ts, g.idx + 1, adv, <<g.type, current_token(ts, g.idx).value>>)
       ELSE var_declaration_continue(ts, g.idx + 1, adv, g.type,
                                     current_token(ts, g.idx).value)

\* Parser.parse
parse_rest(ts, nodes) ==
    IF current_token(ts, nodes.idx).type = TT_EOF THEN nodes
    ELSE IF IsKeyword(current_token(ts, nodes.idx), TypeKeywords)
    THEN LET d == descend("top_level_declaration", ts, nodes.idx, nodes.adv, None)
         IN IF d.err # "" THEN d
            ELSE descend("parse_rest", ts, 0, <<>>, POk(d.idx, d.adv, Append(nodes.node, d.node)))
    ELSE PErr("UnexpectedToken")
\* the call of one Parser method from another: the method, the tokens, token_idx,
\* the blind advances so far, and what a loop or a continuation holds
descend(method, ts, i, adv, held) ==
    CASE method = "factor" -> factor(ts, i, adv)
      [] method = "term" -> term(ts, i, adv)
      [] method = "term_rest" -> term_rest(ts, held)
      [] method = "arithmetic" -> arithmetic(ts, i, adv)
      [] method = "arithmetic_rest" -> arithmetic_rest(ts, held)
      [] method = "comparison" -> comparison(ts, i, adv)
      [] method = "comparison_rest" -> comparison_rest(ts, held)
      [] method = "expression" -> expression(ts, i, adv)
      [] method = "parse_arguments" -> parse_arguments(ts, i, adv)
      [] method = "arguments_rest" -> arguments_rest(ts, held)
      [] method = "function_call" -> function_call(ts, i, adv)
      [] method = "assignment" -> assignment(ts, i, adv)
      [] method = "block_statement" -> block_statement(ts, i, adv)
      [] method = "block_rest" -> block_rest(ts, held)
      [] method = "if_statement" -> if_statement(ts, i, adv)
      [] method = "print_statement" -> print_statement(ts, i, adv)
      [] method = "return_statement" -> return_statement(ts, i, adv)
      [] method = "statement" -> statement(ts, i, adv)
      [] method = "parse_params" -> parse_params(ts, i, adv)
      [] method = "params_rest" -> params_rest(ts, held)
      [] method = "function_definition_continue" ->
            function_definition_continue(ts, i, adv, held[1], held[2])
      [] method = "top_level_declaration" -> top_level_declaration(ts, i, adv)
      [] method = "parse_rest" -> parse_rest(ts, held)

\* Parser.parse
parse(ts) == descend("parse_rest", ts, 0, <<>>, POk(0, <<>>, <<>>))

\* tokens as the Lexer makes them
Kw(value) == Token(TT_KEYWORD, value)
Id(value) == Token(TT_ID, value)
IntTok(n) == Token(TT_INT, PyInt(n))
Op(type) == Token(type, None)

\* the tokens of generated sequences
ParseAlphabet ==
    << Kw("int"), Id("x"), Op(TT_SEMICOLON), Op(TT_LPAREN), Op(TT_RPAREN),
       Op(TT_LBRACE), Op(TT_RBRACE), Kw("debug"), Op(TT_ASSIGN), IntTok(1) >>

\* int g; void main() { int x; x = 1; print(x); debug; return x; }
ParseSampleA ==
    << Kw("int"), Id("g"), Op(TT_SEMICOLON),
       Kw("void"), Id("main"), Op(TT_LPAREN), Op(TT_RPAREN), Op(TT_LBRACE),
       Kw("int"), Id("x"), Op(TT_SEMICOLON),
       Id("x"), Op(TT_ASSIGN), IntTok(1), Op(TT_SEMICOLON),
       Kw("print"), Op(TT_LPAREN), Id("x"), Op(TT_RPAREN), Op(TT_SEMICOLON),
       Kw("debug"), Op(TT_SEMICOLON),
       Kw("return"), Id("x"), Op(TT_SEMICOLON),
       Op(TT_RBRACE) >>
\* int f(int a, char *b) { if (a == 1) { debug; } else { *b = f(a - 1, b) / 2; } }
ParseSampleB ==
    << Kw("int"), Id("f"), Op(TT_LPAREN), Kw("int"), Id("a"), Op(TT_COMMA),
       Kw("char"), Op(TT_ASTERISK), Id("b"), Op(TT_RPAREN), Op(TT_LBRACE),
       Kw("if"), Op(TT_LPAREN), Id("a"), Op(TT_EQ), IntTok(1), Op(TT_RPAREN), Op(TT_LBRACE),
       Kw("debug"), Op(TT_SEMICOLON), Op(TT_RBRACE),
       Kw("else"), Op(TT_LBRACE),
       Op(TT_ASTERISK), Id("b"), Op(TT_ASSIGN),
       Id("f"), Op(TT_LPAREN), Id("a"), Op(TT_MINUS), IntTok(1), Op(TT_COMMA), Id("b"),
       Op(TT_RPAREN), Op(TT_DIV), IntTok(2), Op(TT_SEMICOLON),
       Op(TT_RBRACE), Op(TT_RBRACE) >>
\* void main() { print("Hi" + (&x)); g(); }
ParseSampleC ==
    << Kw("void"), Id("main"), Op(TT_LPAREN), Op(TT_RPAREN), Op(TT_LBRACE),
       Kw("print"), Op(TT_LPAREN), Token(TT_STRING, "Hi"), Op(TT_PLUS),
       Op(TT_LPAREN), Op(TT_AMPERSAND), Id("x"), Op(TT_RPAREN), Op(TT_RPAREN),
       Op(TT_SEMICOLON),
       Id("g"), Op(TT_LPAREN), Op(TT_RPAREN), Op(TT_SEMICOLON),
       Op(TT_RBRACE) >>
ParseSamples == <<ParseSampleA, ParseSampleB, ParseSampleC>>

\* statements of the grammar: assignments and returns whose expression is,
\* holds or ends with a function call, and statements to follow them
ParseStatements ==
    << <<Id("x"), Op(TT_ASSIGN), IntTok(1), Op(TT_SEMICOLON)>>,
       <<Id("x"), Op(TT_ASSIGN), Id("f"), Op(TT_LPAREN), Op(TT_RPAREN), Op(TT_SEMICOLON)>>,
       <<Id("x"), Op(TT_ASSIGN), Id("f"), Op(TT_LPAREN), IntTok(1), Op(TT_RPAREN),
         Op(TT_PLUS), IntTok(1), Op(TT_SEMICOLON)>>,
       <<Id("x"), Op(TT_ASSIGN), IntTok(1), Op(TT_PLUS), Id("f"), Op(TT_LPAREN), Id("x"),
         Op(TT_RPAREN), Op(TT_SEMICOLON)>>,
       <<Op(TT_ASTERISK), Id("x"), Op(TT_ASSIGN), Op(TT_LPAREN), Id("f"), Op(TT_LPAREN),
         Op(TT_RPAREN), Op(TT_RPAREN), Op(TT_SEMICOLON)>>,
       <<Kw("return"), Id("f"), Op(TT_LPAREN), Op(TT_RPAREN), Op(TT_SEMICOLON)>>,
       <<Kw("return"), Id("x"), Op(TT_SEMICOLON)>>,
       <<Kw("debug"), Op(TT_SEMICOLON)>> >>
\* void main() { a b }
StatementTokens(a, b) ==
    <<Kw("void"), Id("main"), Op(TT_LPAREN), Op(TT_RPAREN), Op(TT_LBRACE)>>
    \o ParseStatements[a] \o ParseStatements[b] \o <<Op(TT_RBRACE), Op(TT_EOF)>>

\* the sequences handed to the Parser: make_tokens ends each with the EOF token
GeneratedTokens(choice) ==
    [i \in DOMAIN choice |-> ParseAlphabet[choice[i]]] \o <<Op(TT_EOF)>>
\* sample s with the token at position k replaced by token t of the alphabet
SubstitutedTokens(s, k, t) ==
    [ParseSamples[s] EXCEPT ![k] = ParseAlphabet[t]] \o <<Op(TT_EOF)>>

InitParse ==
    /\ heap = <<>>
    /\ next_free_address = FIRST_ADDRESS
    /\ memCall = NoCall
    /\ memSteps = 0
    /\ calc = NoCalc
    /\ program = <<>>
    /\ static_idx = 1
    /\ functions = <<>>
    /\ global_symtable = <<>>
    /\ string_literals = <<>>
    /\ call_stack = <<>>
    /\ ctl = <<>>
    /\ output = <<>>
    /\ debug_log = <<>>
    /\ phase = "tokens"
    /\ err = ""
    /\ text = <<>>
    /\ pos = 0
    /\ tokens = <<>>
    /\ token_idx = 0
    /\ ast = <<>>
    /\ advanced = <<>>

\* Parser(tokens): the constructor, which sets token_idx to 0 by its call of advance
ParserInit ==
    /\ phase = "tokens"
    /\ \/ \E choice \in SeqsUpTo(DOMAIN ParseAlphabet, MaxTokens) :
            tokens' = GeneratedTokens(choice)
       \/ \E s \in DOMAIN ParseSamples :
            tokens' = ParseSamples[s] \o <<Op(TT_EOF)>>
       \/ \E s \in DOMAIN ParseSamples :
            \E k \in DOMAIN ParseSamples[s], t \in DOMAIN ParseAlphabet :
                tokens' = SubstitutedTokens(s, k, t)
       \/ \E a \in DOMAIN ParseStatements, b \in DOMAIN ParseStatements :
            tokens' = StatementTokens(a, b)
    /\ token_idx' = 0
    /\ phase' = "parse"
    /\ UNCHANGED <<memVars, memCall, memSteps, calc, interpVarsButPhase, err, text, pos,
                   ast, advanced>>

\* Parser.parse: the ProgramNode it returns, or the exception it raises
ParserParse ==
    /\ phase = "parse"
    /\ LET r == parse(tokens)
       IN IF r.err # ""
          THEN /\ phase' = "parseerror"
               /\ err' = r.err
               /\ UNCHANGED <<token_idx, ast, advanced>>
          ELSE /\ phase' = "parsed"
               /\ token_idx' = r.idx
               /\ ast' = r.node
               /\ advanced' = r.adv
               /\ UNCHANGED err
    /\ UNCHANGED <<memVars, memCall, memSteps, calc, interpVarsButPhase, text, pos, tokens>>

NextParse == ParserInit \/ ParserParse

SpecParse == InitParse /\ [][NextParse]_vars

(***************************************************************************)
(* SpecRun: CInterpreterGUI.run_code from the tokens on: Parser.parse and, *)
(* if it returns, Interpreter.visit on the ProgramNode.  The programs are  *)
(* one frame around an assignment statement, whose two sides vary.         *)
(***************************************************************************)
\* int x; int *p; int id(int a) { return a; } void main() { int y; p = &x;
RunPrefix ==
    << Kw("int"), Id("x"), Op(TT_SEMICOLON),
       Kw("int"), Op(TT_ASTERISK), Id("p"), Op(TT_SEMICOLON),
       Kw("int"), Id("id"), Op(TT_LPAREN), Kw("int"), Id("a"), Op(TT_RPAREN),
       Op(TT_LBRACE), Kw("return"), Id("a"), Op(TT_SEMICOLON), Op(TT_RBRACE),
       Kw("void"), Id("main"), Op(TT_LPAREN), Op(TT_RPAREN), Op(TT_LBRACE),
       Kw("int"), Id("y"), Op(TT_SEMICOLON),
       Id("p"), Op(TT_ASSIGN), Op(TT_AMPERSAND), Id("x"), Op(TT_SEMICOLON) >>
\* print(x); debug; if (x == 5) { id(1); } }
RunSuffix ==
    << Kw("print"), Op(TT_LPAREN), Id("x"), Op(TT_RPAREN), Op(TT_SEMICOLON),
       Kw("debug"), Op(TT_SEMICOLON),
       Kw("if"), Op(TT_LPAREN), Id("x"), Op(TT_EQ), IntTok(5), Op(TT_RPAREN),
       Op(TT_LBRACE), Id("id"), Op(TT_LPAREN), IntTok(1), Op(TT_RPAREN),
       Op(TT_SEMICOLON), Op(TT_RBRACE), Op(TT_RBRACE) >>
\* x   *p   **p   &x   5   id(1)   *(p)   *&x   (x)
RunTargets ==
    << <<Id("x")>>,
       <<Op(TT_ASTERISK), Id("p")>>,
       <<Op(TT_ASTERISK), Op(TT_ASTERISK), Id("p")>>,
       <<Op(TT_AMPERSAND), Id("x")>>,
       <<IntTok(5)>>,
       <<Id("id"), Op(TT_LPAREN), IntTok(1), Op(TT_RPAREN)>>,
       <<Op(TT_ASTERISK), Op(TT_LPAREN), Id("p"), Op(TT_RPAREN)>>,
       <<Op(TT_ASTERISK), Op(TT_AMPERSAND), Id("x")>>,
       <<Op(TT_LPAREN), Id("x"), Op(TT_RPAREN)>> >>
\* 5   0 - 7   x + 1   y
RunValues ==
    << <<IntTok(5)>>,
       <<IntTok(0), Op(TT_MINUS), IntTok(7)>>,
       <<Id("x"), Op(TT_PLUS), IntTok(1)>>,
       <<Id("y")>> >>
\* the frame around  target = value;
RunTokens(t, v) ==
    RunPrefix \o RunTargets[t] \o <<Op(TT_ASSIGN)>> \o RunValues[v]
    \o <<Op(TT_SEMICOLON)>> \o RunSuffix \o <<Op(TT_EOF)>>
\* int x; int *p;
RunTokensNoMain == SubSeq(RunPrefix, 1, 7) \o <<Op(TT_EOF)>>

\* Parser(tokens) in run_code
RunParserInit ==
    /\ phase = "tokens"
    /\ \/ \E t \in DOMAIN RunTargets, v \in DOMAIN RunValues : tokens' = RunTokens(t, v)
       \/ tokens' = RunTokensNoMain
    /\ token_idx' = 0
    /\ phase' = "parse"
    /\ UNCHANGED <<memVars, memCall, memSteps, calc, interpVarsButPhase, err, text, pos,
                   ast, advanced>>

\* the top-level nodes as the Interpreter uses them: of a FunctionDefNode's
\* params, which are ID tokens, it uses param_node.value
ProgramNodes(nodes) ==
    [i \in DOMAIN nodes |->
        IF nodes[i].node = "FunctionDef"
        THEN [nodes[i] EXCEPT !.params = [j \in DOMAIN nodes[i].params |->
                                            nodes[i].params[j].value]]
        ELSE nodes[i]]

\* Interpreter(...) and interpreter.visit(ast) in run_code
RunInterpreter ==
    /\ phase = "parsed"
    /\ program' = ProgramNodes(ast)
    /\ phase' = "static"
    /\ UNCHANGED <<memVars, directVars, static_idx, functions, global_symtable,
                   string_literals, call_stack, ctl, output, debug_log, err>>

NextRun == RunParserInit \/ ParserParse \/ RunInterpreter \/ Next

SpecRun == InitParse /\ [][NextRun]_vars

(***************************************************************************)
(* Properties.                                                             *)
(***************************************************************************)
AllSymbols ==
    {global_symtable[n] : n \in DOMAIN global_symtable}
    \cup UNION {{call_stack[i][n] : n \in DOMAIN call_stack[i]} : i \in DOMAIN call_stack}

\* a direct Memory call that writes, made with an address below 1000
C1_LowWrite ==
    /\ memSteps' = memSteps + 1
    /\ memCall'.op \in {"set_int_value", "set_byte_value"}
    /\ PyLt(memCall'.address, PyInt(1000))
C1_Refused ==
    /\ memCall'.error # ""
    /\ heap' = heap
    /\ next_free_address' = next_free_address
\* an assignment statement about to write its value at an address below 1000
C1_LowAssignment ==
    /\ HasCur
    /\ Cur.node = "Assignment"
    /\ Eval(Cur.expr).k = "val"
    /\ AssignTarget(Cur.target).k = "val"
    /\ IsInt(AssignTarget(Cur.target).v)
    /\ PyLt(AssignTarget(Cur.target).v, PyInt(1000))
C1_Fatal ==
    /\ phase' = "error"
    /\ heap' = heap
    /\ next_free_address' = next_free_address

\* C1: after any sequence of allocate, set_int_value and set_byte_value calls
\* and of program statements the heap holds no byte at an address below
\* 1000: a set_int_value or set_byte_value with an address below 1000 fails,
\* fatally for the run of a program, and leaves the heap and the allocation
\* cursor as they were.
C1_NoByteBelow1000 ==
    /\ [](\A k \in DOMAIN heap : ~PyLt(k, PyInt(1000)))
    /\ [][(C1_LowWrite => C1_Refused) /\ (C1_LowAssignment => C1_Fatal)]_vars

\* a refused write below 1000 on a heap that already holds bytes
C1_Witness ==
    /\ memCall.op = "set_byte_value"
    /\ memCall.address = PyInt(999)
    /\ memCall.error = "InvalidWrite"
    /\ heap # <<>>

\* C2: in every reachable state of a run every byte of the heap lies at an
\* address handed out by allocate, that is in [1000, next_free_address).
C2_WritesWithinAllocated ==
    \A k \in DOMAIN heap :
        ~PyLt(k, PyInt(1000)) /\ PyLt(k, PyInt(next_free_address))

\* C3: every Symbol of the global table and of every frame of the call stack
\* has an address a with 1000 <= a < next_free_address, whatever its declared
\* type (int, char, void, pointers).
C3_SymbolAddressesAllocated ==
    \A sym \in AllSymbols : 1000 <= sym.address /\ sym.address < next_free_address

\* the size the declared types have: int 4, char 1, any pointer 4
C4_SizeOf(var_type) ==
    IF var_type.ptr > 0 THEN 4 ELSE IF var_type.base = "int" THEN 4 ELSE 1
\* a top-level declaration is registered by this step
C4_Declares ==
    /\ phase = "static"
    /\ static_idx <= Len(program)
    /\ program[static_idx].node = "VarDecl"
    /\ static_idx' = static_idx + 1
    /\ program[static_idx].name \in DOMAIN global_symtable'
C4_InOrder ==
    LET d == program[static_idx]
        a == global_symtable'[d.name].address
    IN /\ \A n \in DOMAIN global_symtable : global_symtable[n].address < a
       /\ d.var_type # T_VOID =>
            next_free_address' = next_free_address + C4_SizeOf(d.var_type)
       /\ (static_idx > 1 /\ program[static_idx - 1] = VarDecl(T_INT, "val")
           /\ d = VarDecl(T_INT, "msg"))
          => a = global_symtable["val"].address + 4

\* C4: top-level declarations get strictly increasing addresses in
\* declaration order, no address goes to two variables, each declaration
\* advances the cursor by the size of its type (int 4, char 1, pointer 4),
\* and two consecutive int declarations get addresses 4 apart.
C4_GlobalAddressesIncrease == [][C4_Declares => C4_InOrder]_vars

\* the addresses of the len(s) + 1 bytes of the pooled text s
C5_Range(s) == string_literals[s] .. string_literals[s] + Len(s)
C5_Disjoint ==
    \A s, t \in DOMAIN string_literals :
        s # t => C5_Range(s) \cap C5_Range(t) = {}
\* every literal of a registered function evaluates to its pooled address
C5_Evaluates ==
    phase = "main" =>
        \A f \in DOMAIN functions : \A i \in DOMAIN StringsOf(functions[f]) :
            LET s == StringsOf(functions[f])[i]
            IN s \in DOMAIN string_literals
               /\ Eval(Str(s)) = Val(PyInt(string_literals[s]))
\* a pooled text keeps its address
C5_Stable ==
    \A s \in DOMAIN string_literals :
        s \in DOMAIN string_literals' /\ string_literals'[s] = string_literals[s]
RECURSIVE C5_Bytes(_)
\* the bytes the texts of a set take: len + 1 each
C5_Bytes(S) ==
    IF S = {} THEN 0
    ELSE LET s == CHOOSE x \in S : TRUE IN Len(s) + 1 + C5_Bytes(S \ {s})
\* registering a function allocates len + 1 bytes for each text new to the
\* pool and nothing for a text already in it
C5_AllocatedOnce ==
    (phase = "static" /\ static_idx' = static_idx + 1 /\ err' = ""
     /\ program[static_idx].node = "FunctionDef")
    => next_free_address' - next_free_address
         = C5_Bytes(DOMAIN string_literals' \ DOMAIN string_literals)

\* C5: string literals are interned by text: every occurrence of a text
\* evaluates to the one address the pool holds for it, the text is allocated
\* once, and different texts occupy non-overlapping ranges [addr, addr+len+1).
C5_StringInterning ==
    /\ [](C5_Disjoint /\ C5_Evaluates)
    /\ [][C5_Stable /\ C5_AllocatedOnce]_vars

\* a run of main in which "Hi" occurs twice in the program beside another
\* text, and a literal has been printed
C5_Witness ==
    /\ phase = "main"
    /\ Cardinality(DOMAIN string_literals) = 2
    /\ Len(StringsOfList(program)) = 3
    /\ \E i \in DOMAIN output : output[i].line = "[STRING OUTPUT]"

\* the static pass has gone through the whole program
C6_AfterStaticPass == phase = "static" /\ static_idx > Len(program)
RECURSIVE C6_DeclBytes(_)
\* the bytes the top-level declarations of a program take
C6_DeclBytes(nodes) ==
    IF nodes = <<>> THEN 0
    ELSE (IF Head(nodes).node = "VarDecl" THEN GetSizeByType(Head(nodes).var_type) ELSE 0)
         + C6_DeclBytes(Tail(nodes))
C6_Texts == {StringsOfList(program)[i] : i \in DOMAIN StringsOfList(program)}

\* C6: right after the static pass, for every string literal s of the
\* program the bytes at pool[s] .. pool[s]+len(s)-1 are the character codes
\* of s in order, the byte at pool[s]+len(s) is 0, and exactly len(s)+1
\* bytes were allocated for it.
C6_StringBytes ==
    C6_AfterStaticPass =>
        /\ \A s \in C6_Texts :
            /\ s \in DOMAIN string_literals
            /\ \A i \in 1 .. Len(s) :
                /\ PyInt(string_literals[s] + i - 1) \in DOMAIN heap
                /\ heap[PyInt(string_literals[s] + i - 1)] = s[i]
            /\ PyInt(string_literals[s] + Len(s)) \in DOMAIN heap
            /\ heap[PyInt(string_literals[s] + Len(s))] = 0
        /\ next_free_address
             = 1000 + C6_DeclBytes(program) + C5_Bytes(DOMAIN string_literals)

\* the static pass has ended with "Hello" and declarations around it
C6_Witness ==
    /\ C6_AfterStaticPass
    /\ TXT_HELLO \in DOMAIN string_literals
    /\ DOMAIN global_symtable = {"val", "msg"}

\* the statement in hand is about to call a defined function with a number
\* of arguments that differs from its number of parameters
C7_MismatchedCall ==
    /\ HasCur
    /\ Cur.node \in ExprStmts
    /\ Eval(StmtExpr(Cur)).k = "call"
    /\ Eval(StmtExpr(Cur)).name \in DOMAIN functions
    /\ Len(Eval(StmtExpr(Cur)).args)
         # Len(functions[Eval(StmtExpr(Cur)).name].params)

\* C7: a call whose argument count differs from the parameter count fails
\* before the body starts: no frame is pushed, no parameter storage is
\* allocated, nothing is output, and the run ends in an error.
C7_ArityMismatchFails ==
    [][C7_MismatchedCall =>
        /\ phase' = "error"
        /\ call_stack' = call_stack
        /\ next_free_address' = next_free_address
        /\ heap' = heap
        /\ ctl' = ctl
        /\ output' = output]_vars

\* nop(id(7)) has failed: id ran for the argument, nop was not entered
C7_Witness ==
    /\ phase = "error"
    /\ err = "ArityMismatch"
    /\ Len(call_stack) = 1
    /\ Cur = Call("nop", <<Value(PyInt(7))>>)

C8_VisibleNames ==
    DOMAIN global_symtable
    \cup (IF call_stack # <<>> THEN DOMAIN call_stack[Len(call_stack)] ELSE {})

\* C8: for every declared variable x in scope, &x is the address of its
\* Symbol and *(&x) has the value x has in the same state.
C8_DerefOfAddressOf ==
    \A n \in C8_VisibleNames :
        /\ Eval(AddrOf(Var(n))) = Val(PyInt(GetSymbol(n).address))
        /\ Eval(Var(n)).k = "val"
        /\ Eval(Deref(AddrOf(Var(n)))) = Eval(Var(n))

\* main holds a local beside a global whose value does not fit in one byte
C8_Witness ==
    /\ phase = "main"
    /\ Len(call_stack) = 1
    /\ "x" \in DOMAIN call_stack[1]
    /\ Eval(Var("val")) = Val(PyInt(2000))

\* the quotient of a by b truncated toward zero
C9_Truncated(a, b) ==
    LET q == (IF a < 0 THEN -a ELSE a) \div (IF b < 0 THEN -b ELSE b)
    IN IF (a < 0) # (b < 0) THEN -q ELSE q

\* C9: for integers a and nonzero b, a / b is the quotient truncated toward
\* zero, also when a or b is a negative value stored in a variable and read
\* back.
C9_DivisionTruncates ==
    (calc.pc = "done" /\ calc.b # 0)
        => calc.result = Val(PyInt(C9_Truncated(calc.a, calc.b)))

\* the step is a print that logs a line
C10_Prints ==
    /\ HasCur
    /\ Cur.node = "Print"
    /\ Len(output') = Len(output) + 1
C10_Format ==
    LET e == Cur.expr
        line == output'[Len(output')]
    IN IF \/ e.node = "String"
          \/ (e.node = "VarAccess" /\ GetSymbol(e.name).type.base = "char"
              /\ GetSymbol(e.name).type.ptr >= 1)
       THEN line = [line |-> "[STRING OUTPUT]",
                    string |-> [text |-> "chars", chars |-> ReadChars(heap, Eval(e).v)]]
       ELSE line = [line |-> "[INT OUTPUT]", value |-> Eval(e).v]
C10_ScenarioA ==
    (program = <<VarDecl(T_INT, "val"), VarDecl(T_CHAR_PTR, "msg"), Main(ScenarioA)>>
     /\ phase = "finished")
    => output = << [line |-> "--- Executing main ---"],
                   [line |-> "[INT OUTPUT]", value |-> PyInt(123)],
                   [line |-> "[STRING OUTPUT]",
                    string |-> [text |-> "chars", chars |-> TXT_HELLO]],
                   [line |-> "--- Finished ---"] >>

\* C10: print takes its format from the form of its operand: a string
\* literal or a variable whose type begins with char* is output as the
\* null-terminated string at the operand's value, every other operand as a
\* plain integer; scenario A outputs the integer line 123 and then the
\* string line Hello.
C10_PrintFormat ==
    /\ [](C10_ScenarioA)
    /\ [][C10_Prints => C10_Format]_vars

\* a return statement with its value evaluated is about to execute
C11_Returns ==
    /\ HasCur
    /\ Cur.node = "Return"
    /\ Eval(Cur.expr).k = "val"
\* the innermost call, and only it, is gone with all it had left to run, and
\* the statement of the caller that made the call holds the returned value
C11_Unwinds ==
    LET caller == ctl[Len(ctl) - 1]
        s == Head(Head(caller.blocks))
    IN /\ Len(ctl') = Len(ctl) - 1
       /\ \A i \in 1 .. Len(ctl) - 2 : ctl'[i] = ctl[i]
       /\ ctl'[Len(ctl')].func = caller.func
       /\ Head(Head(ctl'[Len(ctl')].blocks))
            = WithExpr(s, FillHole(StmtExpr(s), Eval(Cur.expr).v))
       /\ Tail(Head(ctl'[Len(ctl')].blocks)) = Tail(Head(caller.blocks))
       /\ Tail(ctl'[Len(ctl')].blocks) = Tail(caller.blocks)
       /\ call_stack' = SubSeq(call_stack, 1, Len(call_stack) - 1)
       /\ output' = output
       /\ phase' = phase
C11_ScenarioB ==
    program = ScenarioB =>
        /\ ~(HasCur /\ Cur = ReturnStmt(Num(9)))
        /\ phase = "finished" =>
            output = << [line |-> "--- Executing main ---"],
                        [line |-> "[INT OUTPUT]", value |-> PyInt(5)],
                        [line |-> "[INT OUTPUT]", value |-> PyInt(6)],
                        [line |-> "--- Finished ---"] >>

\* C11: once a return statement executes inside a call, no later statement
\* of that call runs (neither the rest of the if block nor the rest of the
\* body), the unwinding stops at that innermost call, and the call yields
\* the returned value; for if (1 == 1) { return 5; } else { return 9; } the
\* call yields 5 and return 9 never executes.
C11_ReturnUnwinds ==
    /\ [](C11_ScenarioB)
    /\ [][C11_Returns => C11_Unwinds]_vars

\* pick has returned 5 from inside its if block to outer, which goes on
C11_Witness ==
    /\ program = ScenarioB
    /\ Len(ctl) = 3
    /\ Top.func = "outer"
    /\ Cur = Assignment(Var("val"), Value(PyInt(5)))

\* what a step that executes a debug statement does
C12_Debugs ==
    LET call == debug_log'[Len(debug_log')]
    IN /\ output' = Append(output, [line |-> ">>> Breakpoint <<<"])
       /\ Len(debug_log') = Len(debug_log) + 1
       /\ SubSeq(debug_log', 1, Len(debug_log)) = debug_log
       /\ call.after = Len(output')
       /\ call.global_symtable = global_symtable
       /\ call.local_symtable
            = IF call_stack = <<>> THEN <<>> ELSE call_stack[Len(call_stack)]
C12_ScenarioD ==
    (program = ScenarioD /\ debug_log # <<>>) =>
        LET locals == debug_log[1].local_symtable
        IN /\ DOMAIN locals = {"x"}
           /\ locals["x"].address >= 1000
           /\ Len(debug_log) = 1 => GetInt(heap, PyInt(locals["x"].address)) = PyInt(7)
           /\ DOMAIN debug_log[1].global_symtable = {"val"}

\* C12: each execution of a debug statement first sends one breakpoint
\* notice to the output sink and then calls the debug sink exactly once with
\* the global symbol table and the innermost frame's table, and no other
\* step calls the debug sink; inside a call whose only local is an int x set
\* to 7 the local table holds exactly x, at an address >= 1000 where memory
\* reads 7.
C12_DebugSink ==
    /\ [](C12_ScenarioD)
    /\ [][IF HasCur /\ Cur.node = "Debug" THEN C12_Debugs
          ELSE debug_log' = debug_log]_vars

\* the debug statement of probe has run with x = 7 in its frame
C12_Witness ==
    /\ program = ScenarioD
    /\ Len(debug_log) = 1
    /\ Len(call_stack) = 2
    /\ output[Len(output)] = [line |-> ">>> Breakpoint <<<"]

\* main, declared void, has ended and its call has yielded an integer: it
\* ended by executing a return statement with a value
C13_MainReturnedValue ==
    /\ HasCur
    /\ Len(ctl) = 1
    /\ Cur.node = "Value"
    /\ IsInt(Cur.value)
    /\ functions["main"].return_type = T_VOID
C13_Warned(out) ==
    \E i \in 2 .. Len(out) - 1 :
        out[i].line = "Warning: value returned by main ignored"

\* C13: whenever main finishes by executing a return statement with a
\* value, the output sink receives a warning that the value was ignored,
\* between the 'Executing main' line and the 'Finished' line.
C13_MainReturnWarning ==
    [][C13_MainReturnedValue => (phase' = "finished" /\ C13_Warned(output'))]_vars

C14_DefinesMain == \E i \in DOMAIN program :
    program[i].node = "FunctionDef" /\ program[i].name = "main"

\* C14: when the program defines no function named main, the run sends
\* exactly one line to the output sink, the missing-main error, executes no
\* statement, never pushes a call frame and never invokes the debug sink.
C14_MissingMain ==
    (phase \in {"static", "main", "nomain", "finished", "error"} /\ ~C14_DefinesMain) =>
        /\ phase \in {"static", "nomain"}
        /\ output = IF phase = "nomain" THEN <<[line |-> "Error: no main"]>> ELSE <<>>
        /\ ctl = <<>>
        /\ call_stack = <<>>
        /\ debug_log = <<>>

C14_Witness ==
    /\ program = ScenarioN
    /\ phase = "nomain"
    /\ "probe" \in DOMAIN functions
    /\ Len(output) = 1

C15_AllFourPresent(address) ==
    \A i \in 0 .. INT_SIZE - 1 : PyAdd(address, PyInt(i)) \in DOMAIN heap

\* C15: get_int_value at address a fails with an invalid-access error
\* whenever one of a, a+1, a+2, a+3 is absent from the store and returns a
\* value only when all four are present; get_byte_value returns 0 for an
\* absent address and never fails.
C15_ReadIntNeedsFourBytes ==
    /\ memCall.op = "get_int_value" =>
          /\ ~C15_AllFourPresent(memCall.address) => memCall.error = "InvalidAccess"
          /\ memCall.error = "" => C15_AllFourPresent(memCall.address)
    /\ memCall.op = "get_byte_value" =>
          /\ memCall.error = ""
          /\ memCall.address \notin DOMAIN heap => memCall.result = 0

C16_InterpreterPhases == {"static", "main", "nomain", "finished", "error"}
C16_StatementLines == {"[INT OUTPUT]", "[STRING OUTPUT]", ">>> Breakpoint <<<"}
\* the statement in hand is a print whose operand has its value, or a debug
C16_PrintExecutes == HasCur /\ Cur.node = "Print" /\ Eval(Cur.expr).k = "val"
C16_DebugExecutes == HasCur /\ Cur.node = "Debug"
\* what one step of a run delivers
C16_Delivery ==
    IF C16_PrintExecutes
    THEN output' = Append(output, PrintLine(Cur.expr, Eval(Cur.expr).v))
    ELSE IF C16_DebugExecutes
    THEN output' = Append(output, [line |-> ">>> Breakpoint <<<"])
    ELSE IF phase = "static" /\ phase' = "main"
    THEN output = <<>> /\ output' = <<[line |-> "--- Executing main ---"]>>
    ELSE IF phase = "main" /\ phase' = "finished"
    THEN output' = Append(output, [line |-> "--- Finished ---"])
    ELSE output' = output
C16_Shape ==
    /\ output # <<>> => output[1].line = "--- Executing main ---"
    /\ \A i \in 2 .. Len(output) :
          \/ output[i].line \in C16_StatementLines
          \/ i = Len(output) /\ output[i].line = "--- Finished ---"
    /\ phase = "finished" <=>
          (output # <<>> /\ output[Len(output)].line = "--- Finished ---")
    /\ phase = "finished" => (err = "" /\ ctl = <<>>)
    /\ phase = "error" => err # ""

C17_InvalidStringPrint ==
    /\ C16_PrintExecutes
    /\ IsStringOutput(Cur.expr)
    /\ IsInt(Eval(Cur.expr).v)
    /\ PyLt(Eval(Cur.expr).v, PyInt(FIRST_ADDRESS))

\* C17: every error detected while a statement is evaluated aborts the run;
\* in particular a string-formatted print whose operand's value is an
\* address below 1000 ends the run with a fatal error and delivers no
\* output line for that print.
C17_ErrorsAbort ==
    [][C17_InvalidStringPrint => (phase' = "error" /\ output' = output)]_vars

\* the number of calls in progress: the activations above visit_ProgramNode
C20_ActiveCalls == Len(ctl) - 1
\* a step that enters a call, and a step that ends one with a result
C20_CallEntered == phase = "main" /\ phase' = "main" /\ Len(ctl') = Len(ctl) + 1
C20_CallEnded == phase = "main" /\ phase' = "main" /\ Len(ctl') = Len(ctl) - 1
C20_Step ==
    IF C20_CallEntered
    THEN /\ Len(call_stack') = Len(call_stack) + 1
         /\ Pop(call_stack') = call_stack
         \* no statement of the body has run
         /\ ctl'[Len(ctl')].blocks = <<functions[ctl'[Len(ctl')].func].body>>
    ELSE IF C20_CallEnded
    THEN /\ call_stack # <<>>
         /\ call_stack' = Pop(call_stack)
    \* any other step pushes and pops nothing; a declaration adds to the top frame
    ELSE /\ Len(call_stack') = Len(call_stack)
         /\ Pop(call_stack') = Pop(call_stack)

\* C20: every call pushes exactly one frame before its first body statement
\* runs and pops exactly that frame when it ends, by running off the end of
\* the body or by a return; the depth of the call stack while a statement
\* runs is the number of active calls, and the stack is empty when the run
\* reports 'Finished'.
C20_FrameDiscipline ==
    /\ [](phase = "main" => Len(call_stack) = C20_ActiveCalls)
    /\ [](phase = "finished" => call_stack = <<>>)
    /\ [][C20_Step]_vars

C20_Witness ==
    /\ program = ScenarioB
    /\ phase = "main"
    /\ Len(call_stack) = 2
    /\ Len(output) = 2
    /\ output[2] = [line |-> "[INT OUTPUT]", value |-> PyInt(5)]

\* the characters that make_tokens skips or makes a token from
C19_Recognised ==
    Spaces \cup Digits \cup Letters \cup {"_", "\"", "/", "=", "!"}
        \cup DOMAIN SingleCharTokens
\* the first position from p on that holds character c, Len(t) if there is none
C19_Find(t, p, c) ==
    IF \E q \in p .. Len(t) - 1 : t[q + 1] = c
    THEN CHOOSE q \in p .. Len(t) - 1 :
            t[q + 1] = c /\ \A r \in p .. q - 1 : t[r + 1] # c
    ELSE Len(t)
\* the first position from p on where "*/" stands, Len(t) if there is none
C19_FindClose(t, p) ==
    IF \E q \in p .. Len(t) - 2 : t[q + 1] = "*" /\ t[q + 2] = "/"
    THEN CHOOSE q \in p .. Len(t) - 2 :
            /\ t[q + 1] = "*" /\ t[q + 2] = "/"
            /\ \A r \in p .. q - 1 : ~(t[r + 1] = "*" /\ t[r + 2] = "/")
    ELSE Len(t)

RECURSIVE C19_Fault(_, _)
\* the text from position p on, p outside comments and strings, holds an
\* unrecognised character, a '!' not followed by '=', or a string literal
\* that is never closed, outside its comments and closed string literals
C19_Fault(t, p) ==
    IF p >= Len(t) THEN FALSE
    ELSE LET c == t[p + 1]
             n == CharAt(t, p + 1)
         IN CASE c = "\"" ->
                    LET q == C19_Find(t, p + 1, "\"")
                    IN q = Len(t) \/ C19_Fault(t, q + 1)
              [] c = "/" /\ n = "/" -> C19_Fault(t, C19_Find(t, p + 2, "\n"))
              [] c = "/" /\ n = "*" ->
                    LET q == C19_FindClose(t, p + 2)
                    IN q < Len(t) /\ C19_Fault(t, q + 2)
              [] c = "!" -> n # "=" \/ C19_Fault(t, p + 2)
              [] OTHER -> c \notin C19_Recognised \/ C19_Fault(t, p + 1)

C19_EofCount == Cardinality({i \in DOMAIN tokens : tokens[i].type = TT_EOF})

\* C19: for every text make_tokens terminates; it either raises or returns
\* tokens with exactly one end-of-input token, the last one; it raises
\* exactly when the text holds, outside comments and string literals, an
\* unrecognised character, a '!' not followed by '=', or a string literal
\* with no closing quote.
C19_LexerTotal ==
    /\ phase = "lex" ~> phase \in {"lexed", "lexerror"}
    /\ [](phase = "lexed" =>
            /\ C19_EofCount = 1
            /\ tokens[Len(tokens)].type = TT_EOF
            /\ ~C19_Fault(text, 0))
    /\ [](phase = "lexerror" => C19_Fault(text, 0))

C19_Witness ==
    /\ phase = "lexed"
    /\ text = <<"/", "*", "@", "*", "/", "\"", "!", "\"">>
    /\ tokens = <<Token(TT_STRING, "!"), Token(TT_EOF, None)>>

\* the token the grammar fixes at each place where the Parser advances
C18_Fixed ==
    [place \in {"global.semicolon", "declaration.semicolon", "assignment.semicolon",
                "return.semicolon", "print.semicolon", "debug.semicolon",
                "print.lparen", "print.rparen", "if.lparen", "if.rparen",
                "function.lbrace", "if.lbrace", "else.lbrace", "block.rbrace"} |->
        CASE place \in {"print.lparen", "if.lparen"} -> TT_LPAREN
          [] place \in {"print.rparen", "if.rparen"} -> TT_RPAREN
          [] place \in {"function.lbrace", "if.lbrace", "else.lbrace"} -> TT_LBRACE
          [] place = "block.rbrace" -> TT_RBRACE
          [] OTHER -> TT_SEMICOLON]

\* C18: whenever the token at a position the grammar fixes (the ';' ending a
\* declaration, assignment, return, print or debug, the '(' and ')' of print
\* and if, the '{' and '}' of a function body or an if/else block) is a
\* different token, Parser.parse raises; it returns a program AST only for
\* token sequences that match the grammar.
C18_ParseChecksFixedTokens ==
    phase = "parsed" =>
        \A k \in DOMAIN advanced :
            advanced[k].place \in DOMAIN C18_Fixed =>
                current_token(tokens, advanced[k].at).type = C18_Fixed[advanced[k].place]

\* every name some table of the state binds, and one that none binds
C21_Names ==
    DOMAIN global_symtable
    \cup UNION {DOMAIN call_stack[i] : i \in DOMAIN call_stack}
    \cup {"undeclared"}
C21_InTopFrame(n) == call_stack # <<>> /\ n \in DOMAIN call_stack[Len(call_stack)]
C21_OnlyInCaller(n) ==
    /\ ~C21_InTopFrame(n)
    /\ n \notin DOMAIN global_symtable
    /\ \E i \in 1 .. Len(call_stack) - 1 : n \in DOMAIN call_stack[i]
\* the address a name stands for: the top frame's, else the global one, else none
C21_Address(n) ==
    IF C21_InTopFrame(n) THEN Val(PyInt(call_stack[Len(call_stack)][n].address))
    ELSE IF n \in DOMAIN global_symtable THEN Val(PyInt(global_symtable[n].address))
    ELSE Err("UndefinedVariable")
\* reading, taking the address of and assigning to n all go by that address
C21_Resolves(n) ==
    /\ Eval(AddrOf(Var(n))) = C21_Address(n)
    /\ AssignTarget(Var(n)) = C21_Address(n)
    /\ Eval(Var(n)) = IF C21_Address(n).k = "err" THEN C21_Address(n)
                      ELSE ReadInt(C21_Address(n).v)
    /\ C21_OnlyInCaller(n) => Eval(Var(n)) = Err("UndefinedVariable")
\* an assignment to a plain name writes at that address and nowhere else
C21_AssignsThere ==
    (HasCur /\ Cur.node = "Assignment" /\ Cur.target.node = "VarAccess"
     /\ Eval(Cur.expr).k = "val" /\ heap' # heap)
    => /\ C21_Address(Cur.target.name).k = "val"
       /\ \A k \in DOMAIN heap' :
            (k \notin DOMAIN heap \/ heap'[k] # heap[k])
            => k \in AddrRange(C21_Address(Cur.target.name).v, 4)

\* C21: a name resolves to the Symbol of the innermost (top) call frame if
\* that frame binds it, otherwise to the global Symbol, otherwise the lookup
\* fails with an undefined-variable error; it never resolves to a Symbol that
\* only a caller's frame holds, so a local or parameter shadows a global of
\* the same name and a callee cannot read or write its caller's locals.
C21_LookupOrder ==
    /\ [](phase \in {"static", "main"} => \A n \in C21_Names : C21_Resolves(n))
    /\ [][C21_AssignsThere]_vars

\* shadow(4) has assigned 9 to its parameter val and the global val still
\* reads 1 afterwards; peek then failed on x, a local of main, its caller
C21_Witness ==
    /\ phase = "error"
    /\ err = "UndefinedVariable"
    /\ Len(call_stack) = 2
    /\ "x" \in DOMAIN call_stack[1]
    /\ Len(output) = 3
    /\ output[2] = [line |-> "[INT OUTPUT]", value |-> PyInt(1)]
    /\ output[3] = [line |-> "[INT OUTPUT]", value |-> PyInt(9)]

\* the statement in hand is a return whose expression has been evaluated to
\* a value: visit_ReturnNode raises ReturnSignal with it
C22_RaisesReturnSignal ==
    /\ HasCur
    /\ Cur.node = "Return"
    /\ Eval(Cur.expr).k = "val"

\* C22: every value a ReturnSignal carries from a return statement to its
\* call boundary is an integer, also when the returned expression is a call
\* of a void function.
C22_ReturnCarriesInt == C22_RaisesReturnSignal => IsInt(Eval(Cur.expr).v)

\* the innermost call has run its body to the end without a return
C23_BodyCompleted ==
    /\ phase = "main"
    /\ Len(ctl) > 1
    /\ Top.blocks = <<<<>>>>
RECURSIVE C23_Filled(_, _)
\* what stands in the expression after where the awaited call stood in before
C23_Filled(before, after) ==
    CASE before.node = "Hole" -> {after}
      [] before.node = "UnaryOp" -> C23_Filled(before.operand, after.operand)
      [] before.node = "BinaryOp" ->
            C23_Filled(before.left, after.left) \cup C23_Filled(before.right, after.right)
      [] before.node = "FunctionCall" ->
            UNION {C23_Filled(before.args[j], after.args[j]) : j \in DOMAIN before.args}
      [] OTHER -> {}
\* the statement of the caller that waits for the innermost call
C23_Waiting(c) == Head(Head(c[Len(c)].blocks))
C23_Yields(v) ==
    /\ Len(ctl') = Len(ctl) - 1
    /\ C23_Filled(StmtExpr(C23_Waiting(Pop(ctl))), StmtExpr(C23_Waiting(ctl')))
         = {Value(v)}
    /\ call_stack' = Pop(call_stack)

\* C23: a call whose body completes without executing a return statement
\* yields 0 when the declared return type of the function is anything other
\* than void and no value when it is void; in both cases its frame has been
\* popped when the result is produced.
C23_DefaultResult ==
    [][C23_BodyCompleted =>
        IF functions[Top.func].return_type = Type("void", 0)
        THEN C23_Yields(None)
        ELSE C23_Yields(PyInt(0))]_vars

\* fall() and vp() have yielded 0, nop() no value, and main has ended
C23_Witness ==
    /\ phase = "finished"
    /\ Len(output) = 5
    /\ output[2] = [line |-> "[INT OUTPUT]", value |-> PyInt(0)]
    /\ output[3] = [line |-> "[INT OUTPUT]", value |-> PyInt(0)]
    /\ output[4] = [line |-> "[INT OUTPUT]", value |-> None]
    /\ call_stack = <<>>

\* a call has passed its tests and pushed its frame
C24_Enters ==
    /\ HasCur
    /\ Cur.node \in ExprStmts
    /\ Eval(StmtExpr(Cur)).k = "call"
    /\ Len(call_stack') = Len(call_stack) + 1
\* a local declaration has been executed
C24_Declares ==
    /\ HasCur
    /\ Cur.node = "VarDecl"
    /\ Len(call_stack') = Len(call_stack)
    /\ Cur.name \in DOMAIN call_stack'[Len(call_stack')]
C24_Pops == Len(call_stack') < Len(call_stack)
\* address is above every address a Symbol of the state has
C24_Fresh(address) == \A sym \in AllSymbols : sym.address < address
\* every parameter is an int Symbol with four fresh bytes that hold its argument
C24_ParametersFresh ==
    LET call == Eval(StmtExpr(Cur))
        params == functions[call.name].params
        frame == call_stack'[Len(call_stack')]
    IN /\ DOMAIN frame = {params[i] : i \in DOMAIN params}
       /\ next_free_address' = next_free_address + 4 * Cardinality(DOMAIN frame)
       /\ \A i \in DOMAIN params :
            (\A j \in DOMAIN params : params[j] = params[i] => j <= i)
            => /\ frame[params[i]].type = Type("int", 0)
               /\ C24_Fresh(frame[params[i]].address)
               /\ frame[params[i]].address >= next_free_address
               /\ frame[params[i]].address + 4 <= next_free_address'
               /\ \A b \in 0 .. 3 :
                    heap'[PyInt(frame[params[i]].address + b)] = PyByte(call.args[i], b)
C24_LocalFresh ==
    LET sym == call_stack'[Len(call_stack')][Cur.name]
    IN /\ C24_Fresh(sym.address)
       /\ sym.address >= next_free_address
       /\ next_free_address' >= next_free_address

\* C24: every call allocates fresh storage for each parameter (4 bytes, type
\* int, holding the evaluated argument) and for each local declaration it
\* executes: these addresses are strictly greater than every address handed
\* out before, also for repeated calls of one function, and popping a frame
\* leaves next_free_address and the heap as they are.
C24_FreshStoragePerCall ==
    [][/\ C24_Enters => C24_ParametersFresh
       /\ C24_Declares => C24_LocalFresh
       /\ C24_Pops => (next_free_address' = next_free_address /\ heap' = heap)]_vars

\* the top-level nodes of one kind
C25_TopLevel(kind) == {i \in DOMAIN program : program[i].node = kind}
\* everything the static pass has to register is registered
C25_StaticPassDone ==
    /\ \A i \in C25_TopLevel("VarDecl") :
        /\ program[i].name \in DOMAIN global_symtable
        /\ (global_symtable[program[i].name].address < next_free_address
            \/ global_symtable[program[i].name].type = Type("void", 0))
    /\ \A i \in C25_TopLevel("FunctionDef") :
        /\ program[i].name \in DOMAIN functions
        /\ \A k \in DOMAIN StringsOf(program[i]) :
            LET s == StringsOf(program[i])[k]
            IN /\ s \in DOMAIN string_literals
               /\ \A b \in 0 .. Len(s) : PyInt(string_literals[s] + b) \in DOMAIN heap
\* the string literals the statement in hand is about to evaluate are pooled
C25_LiteralFound ==
    (HasCur /\ Cur.node \in ExprStmts) => Eval(StmtExpr(Cur)) # Err("KeyError")
C25_TablesFrozen ==
    /\ functions' = functions
    /\ string_literals' = string_literals
    /\ DOMAIN global_symtable' = DOMAIN global_symtable

\* C25: all global variables and every string literal occurring anywhere in
\* a function body are allocated before the first statement of main runs;
\* during execution the function table, the string-literal pool and the set
\* of names of the global symbol table never change, and evaluating a string
\* literal never finds it missing from the pool.
C25_TwoPhases ==
    /\ [](phase = "main" => (C25_StaticPassDone /\ C25_LiteralFound))
    /\ [](err # "KeyError")
    /\ [][phase = "main" => C25_TablesFrozen]_vars

\* main runs in a program whose globals are declared after its functions,
\* and has printed a string read through one of them
C25_Witness ==
    /\ phase = "main"
    /\ program[Len(program)].node = "VarDecl"
    /\ DOMAIN global_symtable = {"val", "msg"}
    /\ \E i \in DOMAIN output :
        /\ output[i].line = "[STRING OUTPUT]"
        /\ output[i].string = [text |-> "chars", chars |-> TXT_HO]

\* the index of the '=' of the varied assignment statement, and its left-hand side
C26_AssignIdx ==
    CHOOSE k \in Len(RunPrefix) + 1 .. Len(tokens) :
        /\ tokens[k].type = TT_ASSIGN
        /\ \A j \in Len(RunPrefix) + 1 .. k - 1 : tokens[j].type # TT_ASSIGN
C26_LeftSide == SubSeq(tokens, Len(RunPrefix) + 1, C26_AssignIdx - 1)
C26_HasStatement == Len(tokens) > Len(RunPrefix)
C26_PlainVariable == Len(C26_LeftSide) = 1 /\ C26_LeftSide[1].type = TT_ID
C26_Dereference == Len(C26_LeftSide) > 1 /\ C26_LeftSide[1].type = TT_ASTERISK
C26_OtherForm == ~C26_PlainVariable /\ ~C26_Dereference
C26_RunEnded == phase \in {"parseerror", "error", "finished"}
\* the evaluator is at an assignment whose right-hand value is there
C26_Assigns == HasCur /\ Cur.node = "Assignment" /\ Eval(Cur.expr).k = "val"
\* the step writes the bytes of value at address and goes on
C26_Writes(address, value) ==
    /\ \A b \in 0 .. 3 :
        /\ PyAdd(address, PyInt(b)) \in DOMAIN heap'
        /\ heap'[PyAdd(address, PyInt(b))] = PyByte(value, b)
    /\ \A k \in DOMAIN heap' : k \notin AddrRange(address, 4) =>
        k \in DOMAIN heap /\ heap'[k] = heap[k]
    /\ phase' = "main"
C26_Step ==
    /\ (C26_Assigns /\ Cur.target.node = "VarAccess" /\ HasSymbol(Cur.target.name))
       => C26_Writes(PyInt(GetSymbol(Cur.target.name).address), Eval(Cur.expr).v)
    /\ (C26_Assigns /\ Cur.target.node = "UnaryOp" /\ Cur.target.op = "ASTERISK"
        /\ Eval(Cur.target.operand).k = "val"
        /\ ~PyLt(Eval(Cur.target.operand).v, PyInt(1000)))
       => C26_Writes(Eval(Cur.target.operand).v, Eval(Cur.expr).v)
    /\ (C26_Assigns /\ Cur.target.node # "VarAccess"
        /\ ~(Cur.target.node = "UnaryOp" /\ Cur.target.op = "ASTERISK"))
       => (phase' = "error" /\ err' = "InvalidLvalue" /\ heap' = heap)
\* how the run of a program with the assignment statement has ended
C26_Outcome ==
    (C26_HasStatement /\ C26_RunEnded) =>
        IF C26_OtherForm THEN phase = "error" /\ err = "InvalidLvalue"
        ELSE phase # "parseerror"

\* C26: an assignment whose left-hand side is a plain variable writes the
\* evaluated right-hand value at that variable's address; one whose
\* left-hand side is *expr writes it at the address expr evaluates to; an
\* assignment with any other left-hand form (&x = v, a literal, a call) ends
\* in the fatal 'invalid lvalue' error without writing memory.
C26_AssignmentTargets == [][C26_Step]_vars /\ []C26_Outcome

\* the token types of a sequence
C27_Types(ts) == [i \in DOMAIN ts |-> ts[i].type]
\* the program is the function main with the statements a and b of the grammar
C27_Holds(a, b) == C27_Types(tokens) = C27_Types(StatementTokens(a, b))
\* the positions of the tokens that begin the second statement and the closing brace
C27_Following(a, b) ==
    {5 + Len(ParseStatements[a]), 5 + Len(ParseStatements[a]) + Len(ParseStatements[b])}
C27_ParserDone == phase \in {"parsed", "parseerror"}

\* C27: parsing a statement consumes exactly that statement's tokens: the
\* Parser accepts a function body of two statements of the grammar, and
\* after an assignment 'x = e;' or a 'return e;' its current token is the
\* first token of the following statement or the closing brace, also when e
\* is or ends with a function call as in 'x = f();'.
C27_StatementConsumesItsTokens ==
    \A a \in DOMAIN ParseStatements, b \in DOMAIN ParseStatements :
        (C27_ParserDone /\ C27_Holds(a, b)) =>
            /\ phase = "parsed"
            /\ \A k \in DOMAIN advanced :
                advanced[k].place \in {"assignment.semicolon", "return.semicolon"} =>
                    advanced[k].at + 1 \in C27_Following(a, b)

\* a read of the address the call before has written an integer to
C28_ReadsBack ==
    /\ memCall.op = "set_int_value"
    /\ memCall.error = ""
    /\ memCall'.op = "get_int_value"
    /\ memCall'.address = memCall.address
\* the signed 32-bit range
C28_Limit == PyShl8(PyShl8(PyShl8(PyInt(128))))
C28_InRange(v) == ~PyLt(v, PyNeg(C28_Limit)) /\ PyLt(v, C28_Limit)

\* C28: for an address a >= 1000 and an integer v of the signed 32-bit
\* range, set_int_value(a, v) followed by get_int_value(a) returns v, and
\* the four bytes stored at a .. a + 3 are v's little-endian bytes, each in
\* 0 .. 255.
C28_IntRoundTrip ==
    [][(C28_ReadsBack /\ C28_InRange(memCall.value)) =>
        /\ memCall'.error = ""
        /\ memCall'.result = memCall.value
        /\ \A i \in 0 .. INT_SIZE - 1 :
            /\ heap[PyAdd(memCall.address, PyInt(i))] = PyByte(memCall.value, i)
            /\ heap[PyAdd(memCall.address, PyInt(i))] \in 0 .. BYTE_MAX]_vars

\* the live variables, each as its table (0 the global one, i the i-th frame) and name
C29_Variables ==
    {<<0, n>> : n \in DOMAIN global_symtable}
    \cup UNION {{<<i, n>> : n \in DOMAIN call_stack[i]} : i \in DOMAIN call_stack}
C29_Symbol(var) ==
    IF var[1] = 0 THEN global_symtable[var[2]] ELSE call_stack[var[1]][var[2]]
\* what reading the variable gives on heap h
C29_Read(h, var) ==
    LET address == PyInt(C29_Symbol(var).address)
    IN [error |-> GetIntError(h, address),
        value |-> IF GetIntError(h, address) = "" THEN GetInt(h, address) ELSE None]
C29_OthersKeep(var) ==
    \A y \in C29_Variables \ {var} : C29_Read(heap', y) = C29_Read(heap, y)
\* the evaluator assigns an integer to a variable through its name
C29_Assigns ==
    /\ HasCur /\ Cur.node = "Assignment" /\ Cur.target.node = "VarAccess"
    /\ HasSymbol(Cur.target.name)
    /\ Eval(Cur.expr).k = "val" /\ IsInt(Eval(Cur.expr).v)
C29_Assigned ==
    IF C21_InTopFrame(Cur.target.name) THEN <<Len(call_stack), Cur.target.name>>
    ELSE <<0, Cur.target.name>>
C29_DeclaresGlobal ==
    phase = "static" /\ static_idx <= Len(program) /\ program[static_idx].node = "VarDecl"
C29_DeclaresLocal == HasCur /\ Cur.node = "VarDecl"

\* C29: variable isolation: for two distinct live variables of any declared
\* types, declared in any order, declaring one or assigning to it through
\* its name leaves the value read from the other unchanged, and the value
\* read from an assigned variable afterwards is the value assigned.
C29_VariableIsolation ==
    [][/\ C29_Assigns =>
            /\ C29_OthersKeep(C29_Assigned)
            /\ C29_Read(heap', C29_Assigned) = [error |-> "", value |-> Eval(Cur.expr).v]
       /\ C29_DeclaresGlobal => C29_OthersKeep(<<0, program[static_idx].name>>)
       /\ C29_DeclaresLocal => C29_OthersKeep(<<Len(call_stack), Cur.name>>)]_vars

RECURSIVE C30_Calls(_)
RECURSIVE C30_CallsOfList(_)
\* the names of the functions called under a node
C30_Calls(n) ==
    CASE n.node = "FunctionCall" -> {n.name} \cup C30_CallsOfList(n.args)
      [] n.node = "FunctionDef" -> C30_CallsOfList(n.body)
      [] n.node = "Return" -> C30_Calls(n.expr)
      [] n.node = "Print" -> C30_Calls(n.expr)
      [] n.node = "Assignment" -> C30_Calls(n.target) \cup C30_Calls(n.expr)
      [] n.node = "BinaryOp" -> C30_Calls(n.left) \cup C30_Calls(n.right)
      [] n.node = "UnaryOp" -> C30_Calls(n.operand)
      [] n.node = "If" -> C30_Calls(n.condition) \cup C30_CallsOfList(n.true_body)
                          \cup C30_CallsOfList(n.false_body)
      [] OTHER -> {}
C30_CallsOfList(nodes) ==
    IF nodes = <<>> THEN {}
    ELSE C30_Calls(Head(nodes)) \cup C30_CallsOfList(Tail(nodes))
\* the functions called from the bodies of the functions named in S
C30_Callees(S) ==
    UNION {C30_Calls(program[i]) :
           i \in {j \in DOMAIN program :
                    program[j].node = "FunctionDef" /\ program[j].name \in S}}
RECURSIVE C30_Reached(_, _)
\* the functions reached from those of S through at most k further calls
C30_Reached(S, k) == IF k = 0 THEN S ELSE C30_Reached(S \cup C30_Callees(S), k - 1)
\* no function of the program can reach a call to itself
C30_NoRecursion ==
    \A i \in DOMAIN program :
        program[i].node = "FunctionDef" =>
            program[i].name \notin C30_Reached(C30_Callees({program[i].name}), Len(program))
\* the run has reported 'Finished' or a fatal error, or has found no main to run
C30_Stopped == phase \in {"finished", "error", "nomain"}

\* C30: every program in which no function can reach a call to itself,
\* directly or through other functions, eventually stops: after finitely
\* many evaluation steps the run reports 'Finished' or raises a fatal error.
C30_Terminates == [](C30_NoRecursion => <>C30_Stopped)

\* a run through calls, an if and returns that has reported 'Finished'
C30_Witness ==
    /\ program = ScenarioB
    /\ C30_NoRecursion
    /\ phase = "finished"
    /\ Len(output) > 2

====
